---- MODULE Spec2Model ----
(***************************************************************************)
(* A model of the GRUB theme manager (src/core/theme_manager.py): the      *)
(* playlist store, the boot config reader/writer, the regeneration         *)
(* command loop, the installer pipeline and the manager facade.            *)
(*                                                                         *)
(* Strings are sequences of tokens.  A theme name, a file name and a line  *)
(* of /etc/default/grub are sequences of strings; the text of a file is a  *)
(* sequence of tokens in which "\n" ends a line.  The playlist file is a   *)
(* sequence of JSON tokens [t, v].                                         *)
(***************************************************************************)
EXTENDS Integers, Sequences, FiniteSets, TLC

VARIABLES
    playlist,       \* ThemeManager._playlist
    current_theme,  \* ThemeManager._current_theme
    config_file,    \* the playlist file: [exists, text]
    grub_default,   \* /etc/default/grub: [exists, text]
    themes,         \* /usr/share/grub/themes: directory name -> set of file names
    euid,           \* os.geteuid()
    system,         \* the host: [family, is_uefi, commands], commands: argv -> outcome
    tmp_files,      \* the temporary download files on disk (their names)
    request,        \* the input of a pure function under check
    last            \* the last call: its name, arguments, result and what it did

vars == <<playlist, current_theme, config_file, grub_default, themes, euid, system,
          tmp_files, request, last>>

(***************************************************************************)
(* Bounds of the model.                                                    *)
(***************************************************************************)
MaxFileList == 2      \* longest playlist held by an initial playlist file
MaxPlaylist == 3      \* add_theme is not explored beyond this length
MaxGrubLines == 2     \* most lines of an initial /etc/default/grub
MaxBaseLen == 2       \* longest base of a source file name (name resolution)

(***************************************************************************)
(* Python values.                                                          *)
(***************************************************************************)
None == <<"<None>">>

Min(a, b) == IF a < b THEN a ELSE b

Range(s) == {s[i] : i \in 1..Len(s)}

\* s.startswith(p)
StartsWith(s, p) == Len(s) >= Len(p) /\ SubSeq(s, 1, Len(p)) = p

\* s.endswith(p)
EndsWith(s, p) == Len(s) >= Len(p) /\ SubSeq(s, Len(s) - Len(p) + 1, Len(s)) = p

\* s[:-n] for n > 0
DropLast(s, n) == SubSeq(s, 1, Len(s) - Min(n, Len(s)))

\* the index of the first element of s in set cs, 0 when there is none
RECURSIVE FirstIn(_, _, _)
FirstIn(s, cs, i) ==
    IF i > Len(s) THEN 0
    ELSE IF s[i] \in cs THEN i
    ELSE FirstIn(s, cs, i + 1)

\* the index of the last element of s in set cs, 0 when there is none
RECURSIVE LastIn(_, _, _)
LastIn(s, cs, i) ==
    IF i < 1 THEN 0
    ELSE IF s[i] \in cs THEN i
    ELSE LastIn(s, cs, i - 1)

\* s.strip(chars): the elements of cs removed from both ends
RECURSIVE LStrip(_, _)
LStrip(s, cs) ==
    IF s # <<>> /\ s[1] \in cs THEN LStrip(Tail(s), cs) ELSE s

RECURSIVE RStrip(_, _)
RStrip(s, cs) ==
    IF s # <<>> /\ s[Len(s)] \in cs THEN RStrip(SubSeq(s, 1, Len(s) - 1), cs) ELSE s

Strip(s, cs) == RStrip(LStrip(s, cs), cs)

\* s.replace(tok, ""): every occurrence of the token removed
RECURSIVE Remove(_, _)
Remove(s, tok) ==
    IF s = <<>> THEN <<>>
    ELSE IF s[1] = tok THEN Remove(Tail(s), tok)
    ELSE <<s[1]>> \o Remove(Tail(s), tok)

\* list.remove(x): the first occurrence removed
RECURSIVE ListRemove(_, _)
ListRemove(s, x) ==
    IF s = <<>> THEN <<>>
    ELSE IF s[1] = x THEN Tail(s)
    ELSE <<s[1]>> \o ListRemove(Tail(s), x)

\* all sequences over S of length at most n
RECURSIVE SeqsUpTo(_, _)
SeqsUpTo(S, n) ==
    IF n = 0 THEN {<<>>}
    ELSE LET shorter == SeqsUpTo(S, n - 1)
         IN  shorter \cup {Append(s, x) : s \in shorter, x \in S}

\* the concatenation of a sequence of sequences
RECURSIVE Flatten(_)
Flatten(ss) == IF ss = <<>> THEN <<>> ELSE Head(ss) \o Flatten(Tail(ss))

(***************************************************************************)
(* Text files: str.splitlines() and "\n".join(lines) + "\n".               *)
(***************************************************************************)
NL == "\n"

\* a form feed: one of the line boundaries of str.splitlines() other than
\* "\n" (with \v, \x1c, \x1d, \x1e, \x85, \u2028 and \u2029)
FF == "\f"

\* the characters str.splitlines() ends a line at
LineBoundaries == {NL, FF}

RECURSIVE SplitLines(_)
SplitLines(text) ==
    IF text = <<>> THEN <<>>
    ELSE LET i == FirstIn(text, LineBoundaries, 1)
         IN  IF i = 0 THEN <<text>>
             ELSE <<SubSeq(text, 1, i - 1)>> \o SplitLines(SubSeq(text, i + 1, Len(text)))

RECURSIVE JoinLines(_)
JoinLines(lines) ==
    IF lines = <<>> THEN <<>>
    ELSE IF Len(lines) = 1 THEN lines[1]
    ELSE lines[1] \o <<NL>> \o JoinLines(Tail(lines))

(***************************************************************************)
(* The boot config file /etc/default/grub.                                 *)
(***************************************************************************)
GRUB_THEME == "GRUB_THEME="
ThemesRoot == "/usr/share/grub/themes/"
ThemeTxt == "/theme.txt"
DQ == "\""
SQ == "'"
SP == " "
HASH == "#"

\* theme_line = f'GRUB_THEME="/usr/share/grub/themes/{theme_name}/theme.txt"'
ThemeLine(theme_name) ==
    <<GRUB_THEME, DQ, ThemesRoot>> \o theme_name \o <<ThemeTxt, DQ>>

\* the first index i >= from with lines[i].startswith("GRUB_THEME="), 0 if none
RECURSIVE FirstThemeLine(_, _)
FirstThemeLine(lines, from) ==
    IF from > Len(lines) THEN 0
    ELSE IF StartsWith(lines[from], <<GRUB_THEME>>) THEN from
    ELSE FirstThemeLine(lines, from + 1)

\* _update_grub_config, the rewrite of the lines: the first line that starts
\* with GRUB_THEME= is replaced, otherwise the directive is appended
RewriteLines(lines, theme_name) ==
    LET i == FirstThemeLine(lines, 1)
    IN  IF i # 0 THEN [lines EXCEPT ![i] = ThemeLine(theme_name)]
        ELSE Append(lines, ThemeLine(theme_name))

\* grub_default_path.write_text("\n".join(lines) + "\n")
RewriteText(text, theme_name) ==
    JoinLines(RewriteLines(SplitLines(text), theme_name)) \o <<NL>>

\* the theme name one line of the config yields, <<>> when it yields none
LineTheme(rawline) ==
    LET line == Strip(rawline, {SP})
    IN  IF StartsWith(line, <<GRUB_THEME>>) /\ ~StartsWith(line, <<HASH>>)
        THEN LET theme_path_match == Strip(Tail(line), {DQ, SQ})
             IN  IF ThemesRoot \in Range(theme_path_match)
                 THEN Remove(Remove(theme_path_match, ThemesRoot), ThemeTxt)
                 ELSE <<>>
        ELSE <<>>

RECURSIVE FirstLineTheme(_)
FirstLineTheme(lines) ==
    IF lines = <<>> THEN None
    ELSE IF LineTheme(Head(lines)) # <<>> THEN LineTheme(Head(lines))
    ELSE FirstLineTheme(Tail(lines))

\* _get_current_theme_from_grub
GetCurrentThemeFromGrub(grub) ==
    IF ~grub.exists THEN None
    ELSE FirstLineTheme(SplitLines(grub.text))

(***************************************************************************)
(* The playlist file: json.dumps, json.loads and dict.get.                 *)
(* The text is a sequence of tokens [t, v]: t is the kind of the token and *)
(* v the string it carries (a key or a string value).                      *)
(***************************************************************************)
Tok(t, v) == [t |-> t, v |-> v]

LBrace == Tok("{", <<>>)
RBrace == Tok("}", <<>>)
LBrack == Tok("[", <<>>)
RBrack == Tok("]", <<>>)
JNull == Tok("null", <<>>)
JStr(s) == Tok("str", s)
JKey(k) == Tok("key", <<k>>)
JGarbage == Tok("garbage", <<>>)   \* text that is no JSON
JBadUtf8 == Tok("badutf8", <<>>)   \* bytes that are no UTF-8

Scalars == {"str", "null", "num"}

\* the JSON text of an Optional[str]
DumpOptional(x) == IF x = None THEN JNull ELSE JStr(x)

\* DumpList writing the strings last to first
DumpListReversed(items) ==
    <<LBrack>> \o [i \in 1..Len(items) |-> JStr(items[Len(items) + 1 - i])] \o <<RBrack>>

\* the JSON text of a list of strings
DumpList(items) == <<LBrack>> \o [i \in 1..Len(items) |-> JStr(items[i])] \o <<RBrack>>

\* json.dumps(data, indent=2, ensure_ascii=False) of save_playlist's data
JsonDumps(data) ==
    <<LBrace, JKey("playlist")>> \o DumpList(data.playlist)
        \o <<JKey("current_theme"), DumpOptional(data.current_theme)>>
        \o <<JKey("last_updated"), JStr(data.last_updated), RBrace>>

\* a parsed value: a scalar, or a list and its items
ScalarValue(tok) == [type |-> tok.t, s |-> tok.v, items |-> <<>>]
ListValue(items) == [type |-> "list", s |-> <<>>, items |-> items]

\* the index of the "]" that closes the list opened at i, 0 when the items
\* are not all scalars or the list is not closed
RECURSIVE ListEnd(_, _)
ListEnd(toks, j) ==
    IF j > Len(toks) THEN 0
    ELSE IF toks[j] = RBrack THEN j
    ELSE IF toks[j].t \in Scalars THEN ListEnd(toks, j + 1)
    ELSE 0

\* the value that starts at token i: [ok, value, next]
ParseValue(toks, i) ==
    IF i > Len(toks) THEN [ok |-> FALSE, value |-> ListValue(<<>>), next |-> i]
    ELSE IF toks[i].t \in Scalars
    THEN [ok |-> TRUE, value |-> ScalarValue(toks[i]), next |-> i + 1]
    ELSE IF toks[i] = LBrack /\ ListEnd(toks, i + 1) # 0
    THEN LET e == ListEnd(toks, i + 1)
         IN  [ok |-> TRUE,
              value |-> ListValue([k \in 1..(e - i - 1) |-> toks[i + k]]),
              next |-> e + 1]
    ELSE [ok |-> FALSE, value |-> ListValue(<<>>), next |-> i]

\* the members of an object from token i on: [ok, fields], a later key
\* overriding an earlier one; the object must end with the text
RECURSIVE ParseMembers(_, _, _)
ParseMembers(toks, i, fields) ==
    IF i > Len(toks) THEN [ok |-> FALSE, fields |-> fields]
    ELSE IF toks[i] = RBrace THEN [ok |-> i = Len(toks), fields |-> fields]
    ELSE IF toks[i].t = "key"
    THEN LET pv == ParseValue(toks, i + 1)
             k == toks[i].v[1]
         IN  IF pv.ok
             THEN ParseMembers(toks, pv.next,
                      [x \in DOMAIN fields \cup {k} |->
                          IF x = k THEN pv.value ELSE fields[x]])
             ELSE [ok |-> FALSE, fields |-> fields]
    ELSE [ok |-> FALSE, fields |-> fields]

NoFields == [x \in {} |-> ListValue(<<>>)]

\* json.loads(content): [error, isdict, fields, value]
JsonLoads(toks) ==
    IF toks # <<>> /\ toks[1] = LBrace
    THEN LET pm == ParseMembers(toks, 2, NoFields)
         IN  [error |-> ~pm.ok, isdict |-> TRUE, fields |-> pm.fields]
    ELSE LET pv == ParseValue(toks, 1)
         IN  [error |-> ~(pv.ok /\ pv.next = Len(toks) + 1),
              isdict |-> FALSE, fields |-> NoFields]

\* LoadedPlaylist without the isinstance(playlist_data, list) check: a
\* string is taken for the playlist
LoadedPlaylistUntyped(file) ==
    IF ~file.exists THEN <<>>
    ELSE IF JBadUtf8 \in Range(file.text) THEN <<>>
    ELSE LET data == JsonLoads(file.text)
         IN  IF data.error THEN <<>>
             ELSE IF ~data.isdict THEN <<>>
             ELSE IF "playlist" \notin DOMAIN data.fields THEN <<>>
             ELSE IF data.fields["playlist"].type = "list"
             THEN [i \in 1..Len(data.fields["playlist"].items) |->
                      data.fields["playlist"].items[i].v]
             ELSE <<data.fields["playlist"].s>>

\* the strings of a parsed list (the model's files hold lists of strings)
ItemStrings(items) == [i \in 1..Len(items) |-> items[i].v]

\* load_playlist, the playlist it leaves in memory for a playlist file
LoadedPlaylist(file) ==
    IF ~file.exists THEN <<>>
    ELSE IF JBadUtf8 \in Range(file.text) THEN <<>>                \* UnicodeDecodeError
    ELSE LET data == JsonLoads(file.text)
         IN  IF data.error THEN <<>>                               \* JSONDecodeError
             ELSE IF ~data.isdict THEN <<>>                        \* data.get raises
             ELSE IF "playlist" \notin DOMAIN data.fields THEN <<>>  \* the default []
             ELSE IF data.fields["playlist"].type = "list"
             THEN ItemStrings(data.fields["playlist"].items)
             ELSE <<>>

\* Path().cwd(), written to last_updated
Cwd == <<"/cwd">>

\* SavedText without the theme of the boot config: current_theme is null
SavedTextStale(pl, grub) ==
    JsonDumps([playlist |-> pl, current_theme |-> None, last_updated |-> Cwd])

\* save_playlist, the text it writes
SavedText(pl, grub) ==
    JsonDumps([playlist |-> pl,
               current_theme |-> GetCurrentThemeFromGrub(grub),
               last_updated |-> Cwd])

\* what the write of the playlist file can do: complete; fail before the file
\* is opened (the file is as before); fail after the file was truncated
SaveOutcomes == {"written", "not_opened", "truncated"}

\* save_playlist, the playlist file it leaves; every failure is logged only
SavedFile(file, pl, grub, outcome) ==
    IF outcome = "written" THEN [exists |-> TRUE, text |-> SavedText(pl, grub)]
    ELSE IF outcome = "truncated" THEN [exists |-> TRUE, text |-> <<>>]
    ELSE file

(***************************************************************************)
(* ThemeOperation and Theme (src/core/models.py).                          *)
(***************************************************************************)
\* ThemeOperation(success, message, theme): the message is its text and the
\* value formatted into it
ThemeOperation(success, text, arg, theme) ==
    [success |-> success, message |-> [text |-> text, arg |-> arg], theme |-> theme]

NoOperation == ThemeOperation(FALSE, "", <<>>, None)

\* the descriptor file names Theme.is_valid accepts
ThemeFiles == {"theme.txt", "Theme.txt", "THEME.TXT", "theme.conf"}

\* Theme.is_valid of a directory of the catalog
IsValid(catalog, name) ==
    name \in DOMAIN catalog /\ catalog[name] \cap ThemeFiles # {}

(***************************************************************************)
(* The regeneration commands.                                              *)
(***************************************************************************)
UpdateGrub == <<"update-grub">>
GrubMkconfig == <<"grub-mkconfig", "-o", "/boot/grub/grub.cfg">>
Grub2MkconfigEfi == <<"grub2-mkconfig", "-o", "/boot/efi/EFI/fedora/grub.cfg">>
Grub2Mkconfig == <<"grub2-mkconfig", "-o", "/boot/grub2/grub.cfg">>

AllCommands == {UpdateGrub, GrubMkconfig, Grub2MkconfigEfi, Grub2Mkconfig}

Families == {"debian", "arch", "fedora", "suse", "unknown"}

\* what subprocess.run of a candidate does: exit 0, exit non-zero,
\* FileNotFoundError, TimeoutExpired, another exception
CmdOutcomes == {"zero", "nonzero", "notfound", "timeout", "error"}

\* the family-specific commands of _get_grub_update_commands
PrimaryCommands(family, is_uefi) ==
    IF family = "debian" THEN <<UpdateGrub>>
    ELSE IF family = "arch" THEN <<GrubMkconfig>>
    ELSE IF family = "fedora"
    THEN IF is_uefi THEN <<Grub2MkconfigEfi, Grub2Mkconfig>> ELSE <<Grub2Mkconfig>>
    ELSE IF family = "suse" THEN <<Grub2Mkconfig>>
    ELSE <<>>

FallbackCommands == <<UpdateGrub, GrubMkconfig, Grub2Mkconfig>>

\* for cmd in fallback_commands: if cmd not in commands: commands.append(cmd)
RECURSIVE AppendMissing(_, _)
AppendMissing(commands, fallback) ==
    IF fallback = <<>> THEN commands
    ELSE IF Head(fallback) \in Range(commands)
    THEN AppendMissing(commands, Tail(fallback))
    ELSE AppendMissing(Append(commands, Head(fallback)), Tail(fallback))

\* _get_grub_update_commands
GetGrubUpdateCommands(sys) ==
    AppendMissing(PrimaryCommands(sys.family, sys.is_uefi), FallbackCommands)

\* last_error after a failed candidate
CandidateError(cmd, outcome) == <<outcome, cmd[1]>>

\* RunCommands giving up at a command that is not found
RECURSIVE RunCommandsUntilNotFound(_, _, _, _, _)
RunCommandsUntilNotFound(cmds, outcome, i, ran, last_error) ==
    IF i > Len(cmds) \/ (ran # <<>> /\ ran[Len(ran)].outcome = "notfound")
    THEN [ran |-> ran,
          result |-> ThemeOperation(FALSE,
                        "All GRUB update commands failed. Last error: {error}",
                        last_error, None)]
    ELSE LET cmd == cmds[i]
             log == Append(ran, [cmd |-> cmd, outcome |-> outcome[cmd]])
         IN  IF outcome[cmd] = "zero"
             THEN [ran |-> log,
                   result |-> ThemeOperation(TRUE,
                                 "GRUB config updated successfully (using: {cmd})",
                                 <<cmd[1]>>, None)]
             ELSE RunCommandsUntilNotFound(cmds, outcome, i + 1, log,
                                           CandidateError(cmd, outcome[cmd]))

\* RunCommands recording last_error for a non-zero exit only
RECURSIVE RunCommandsExitErrorOnly(_, _, _, _, _)
RunCommandsExitErrorOnly(cmds, outcome, i, ran, last_error) ==
    IF i > Len(cmds)
    THEN [ran |-> ran,
          result |-> ThemeOperation(FALSE,
                        "All GRUB update commands failed. Last error: {error}",
                        last_error, None)]
    ELSE LET cmd == cmds[i]
             log == Append(ran, [cmd |-> cmd, outcome |-> outcome[cmd]])
         IN  IF outcome[cmd] = "zero"
             THEN [ran |-> log,
                   result |-> ThemeOperation(TRUE,
                                 "GRUB config updated successfully (using: {cmd})",
                                 <<cmd[1]>>, None)]
             ELSE RunCommandsExitErrorOnly(cmds, outcome, i + 1, log,
                      IF outcome[cmd] = "nonzero"
                      THEN CandidateError(cmd, outcome[cmd]) ELSE last_error)

\* the loop over update_commands from candidate i on: ran is the log of the
\* candidates run so far with their outcomes
RECURSIVE RunCommands(_, _, _, _, _)
RunCommands(cmds, outcome, i, ran, last_error) ==
    IF i > Len(cmds)
    THEN [ran |-> ran,
          result |-> ThemeOperation(FALSE,
                        "All GRUB update commands failed. Last error: {error}",
                        last_error, None)]
    ELSE LET cmd == cmds[i]
             log == Append(ran, [cmd |-> cmd, outcome |-> outcome[cmd]])
         IN  IF outcome[cmd] = "zero"
             THEN [ran |-> log,
                   result |-> ThemeOperation(TRUE,
                                 "GRUB config updated successfully (using: {cmd})",
                                 <<cmd[1]>>, None)]
             ELSE RunCommands(cmds, outcome, i + 1, log, CandidateError(cmd, outcome[cmd]))

\* UpdateGrubConfig without _ensure_root_access
UpdateGrubConfigUngated(theme_name, grub, uid, sys) ==
    IF ~grub.exists
    THEN [result |-> ThemeOperation(FALSE,
                        "GRUB config file does not exist: /etc/default/grub", <<>>, None),
          grub |-> grub, ran |-> <<>>]
    ELSE LET run == RunCommands(GetGrubUpdateCommands(sys), sys.commands, 1, <<>>, None)
         IN  [result |-> run.result,
              grub |-> [exists |-> TRUE, text |-> RewriteText(grub.text, theme_name)],
              ran |-> run.ran]

\* _update_grub_config: [result, grub, ran]
UpdateGrubConfig(theme_name, grub, uid, sys) ==
    IF uid # 0
    THEN [result |-> ThemeOperation(FALSE, "Failed to update GRUB config: {error}",
                                    <<"PermissionError">>, None),
          grub |-> grub, ran |-> <<>>]
    ELSE IF ~grub.exists
    THEN [result |-> ThemeOperation(FALSE,
                        "GRUB config file does not exist: /etc/default/grub", <<>>, None),
          grub |-> grub, ran |-> <<>>]
    ELSE LET run == RunCommands(GetGrubUpdateCommands(sys), sys.commands, 1, <<>>, None)
         IN  [result |-> run.result,
              grub |-> [exists |-> TRUE, text |-> RewriteText(grub.text, theme_name)],
              ran |-> run.ran]

(***************************************************************************)
(* The facade: set_theme and random_theme.                                 *)
(***************************************************************************)
\* SetTheme without the check of theme.is_valid
SetThemeUnvalidated(theme_name, pl, cur, file, grub, catalog, uid, sys, sv) ==
    LET untouched(result) ==
            [result |-> result, current_theme |-> cur, config_file |-> file,
             grub |-> grub, update |-> NoOperation, ran |-> <<>>, saved |-> "none"]
    IN  IF theme_name \notin DOMAIN catalog
        THEN untouched(ThemeOperation(FALSE, "Theme does not exist: {name}", theme_name, None))
        ELSE LET upd == UpdateGrubConfig(theme_name, grub, uid, sys)
             IN  IF ~upd.result.success
                 THEN [result |-> upd.result, current_theme |-> cur, config_file |-> file,
                       grub |-> upd.grub, update |-> upd.result, ran |-> upd.ran,
                       saved |-> "none"]
                 ELSE [result |-> ThemeOperation(TRUE, "Theme set: {name}", theme_name,
                                                 theme_name),
                       current_theme |-> theme_name,
                       config_file |-> SavedFile(file, pl, upd.grub, sv),
                       grub |-> upd.grub, update |-> upd.result, ran |-> upd.ran,
                       saved |-> sv]

\* SetTheme recording the theme as current before it looks at the result of
\* _update_grub_config
SetThemeEager(theme_name, pl, cur, file, grub, catalog, uid, sys, sv) ==
    LET untouched(result) ==
            [result |-> result, current_theme |-> cur, config_file |-> file,
             grub |-> grub, update |-> NoOperation, ran |-> <<>>, saved |-> "none"]
    IN  IF theme_name \notin DOMAIN catalog
        THEN untouched(ThemeOperation(FALSE, "Theme does not exist: {name}", theme_name, None))
        ELSE IF ~IsValid(catalog, theme_name)
        THEN untouched(ThemeOperation(FALSE, "Invalid theme: {name}", theme_name, None))
        ELSE LET upd == UpdateGrubConfig(theme_name, grub, uid, sys)
             IN  IF ~upd.result.success
                 THEN [result |-> upd.result, current_theme |-> theme_name,
                       config_file |-> file,
                       grub |-> upd.grub, update |-> upd.result, ran |-> upd.ran,
                       saved |-> "none"]
                 ELSE [result |-> ThemeOperation(TRUE, "Theme set: {name}", theme_name,
                                                 theme_name),
                       current_theme |-> theme_name,
                       config_file |-> SavedFile(file, pl, upd.grub, sv),
                       grub |-> upd.grub, update |-> upd.result, ran |-> upd.ran,
                       saved |-> sv]

\* set_theme: what the call returns and leaves behind.  update is the
\* result of _update_grub_config (NoOperation when it is not called), saved
\* the outcome of save_playlist ("none" when it is not called)
SetTheme(theme_name, pl, cur, file, grub, catalog, uid, sys, sv) ==
    LET untouched(result) ==
            [result |-> result, current_theme |-> cur, config_file |-> file,
             grub |-> grub, update |-> NoOperation, ran |-> <<>>, saved |-> "none"]
    IN  IF theme_name \notin DOMAIN catalog
        THEN untouched(ThemeOperation(FALSE, "Theme does not exist: {name}", theme_name, None))
        ELSE IF ~IsValid(catalog, theme_name)
        THEN untouched(ThemeOperation(FALSE, "Invalid theme: {name}", theme_name, None))
        ELSE LET upd == UpdateGrubConfig(theme_name, grub, uid, sys)
             IN  IF ~upd.result.success
                 THEN [result |-> upd.result, current_theme |-> cur, config_file |-> file,
                       grub |-> upd.grub, update |-> upd.result, ran |-> upd.ran,
                       saved |-> "none"]
                 ELSE [result |-> ThemeOperation(TRUE, "Theme set: {name}", theme_name,
                                                 theme_name),
                       current_theme |-> theme_name,
                       config_file |-> SavedFile(file, pl, upd.grub, sv),
                       grub |-> upd.grub, update |-> upd.result, ran |-> upd.ran,
                       saved |-> sv]

\* AvailableThemes falling back to the playlist whatever its length
AvailableThemesAlwaysFallback(pl, cur) ==
    LET available_themes == SelectSeq(pl, LAMBDA t : t # cur)
    IN  IF available_themes # <<>> THEN available_themes ELSE pl

\* random_theme: available_themes, the list random.choice draws from;
\* <<>> when the call fails before the choice
AvailableThemes(pl, cur) ==
    LET available_themes == SelectSeq(pl, LAMBDA t : t # cur)
    IN  IF pl = <<>> THEN <<>>
        ELSE IF available_themes # <<>> THEN available_themes
        ELSE IF Len(pl) = 1 THEN <<>>
        ELSE pl

\* random_theme, the failure returned before the choice
RandomFailure(pl) ==
    IF pl = <<>> THEN ThemeOperation(FALSE, "Playlist is empty", <<>>, None)
    ELSE ThemeOperation(FALSE, "Only one theme in playlist", <<>>, None)

(***************************************************************************)
(* The facade: add_theme and remove_theme.                                 *)
(***************************************************************************)
\* a path given to add_theme: the directory `name` of the catalog, or one
\* elsewhere with its own files
CatalogPath(name) == [where |-> "catalog", name |-> name, exists |-> FALSE, files |-> {}]
OtherPath(name, exists, files) ==
    [where |-> "other", name |-> name, exists |-> exists, files |-> files]

PathExists(path, catalog) ==
    IF path.where = "catalog" THEN path.name \in DOMAIN catalog ELSE path.exists

PathFiles(path, catalog) ==
    IF path.where = "catalog"
    THEN IF path.name \in DOMAIN catalog THEN catalog[path.name] ELSE {}
    ELSE IF path.exists THEN path.files ELSE {}

\* AddTheme without the call of save_playlist
AddThemeUnsaved(theme_path, pl, catalog) ==
    IF ~PathExists(theme_path, catalog)
    THEN [result |-> ThemeOperation(FALSE, "Theme path does not exist: {path}",
                                    theme_path.name, None),
          playlist |-> pl, saves |-> FALSE]
    ELSE IF theme_path.name \in Range(pl)
    THEN [result |-> ThemeOperation(FALSE, "Theme '{name}' is already in playlist",
                                    theme_path.name, None),
          playlist |-> pl, saves |-> FALSE]
    ELSE IF "theme.txt" \notin PathFiles(theme_path, catalog)
    THEN [result |-> ThemeOperation(FALSE, "Invalid GRUB theme: missing theme.txt file",
                                    <<>>, None),
          playlist |-> pl, saves |-> FALSE]
    ELSE [result |-> ThemeOperation(TRUE, "Theme '{name}' added to playlist",
                                    theme_path.name, theme_path.name),
          playlist |-> Append(pl, theme_path.name), saves |-> FALSE]

\* AddTheme without the check of the playlist
AddThemeUnchecked(theme_path, pl, catalog) ==
    IF ~PathExists(theme_path, catalog)
    THEN [result |-> ThemeOperation(FALSE, "Theme path does not exist: {path}",
                                    theme_path.name, None),
          playlist |-> pl, saves |-> FALSE]
    ELSE IF "theme.txt" \notin PathFiles(theme_path, catalog)
    THEN [result |-> ThemeOperation(FALSE, "Invalid GRUB theme: missing theme.txt file",
                                    <<>>, None),
          playlist |-> pl, saves |-> FALSE]
    ELSE [result |-> ThemeOperation(TRUE, "Theme '{name}' added to playlist",
                                    theme_path.name, theme_path.name),
          playlist |-> Append(pl, theme_path.name), saves |-> TRUE]

\* add_theme: [result, playlist, saves]
AddTheme(theme_path, pl, catalog) ==
    IF ~PathExists(theme_path, catalog)
    THEN [result |-> ThemeOperation(FALSE, "Theme path does not exist: {path}",
                                    theme_path.name, None),
          playlist |-> pl, saves |-> FALSE]
    ELSE IF theme_path.name \in Range(pl)
    THEN [result |-> ThemeOperation(FALSE, "Theme '{name}' is already in playlist",
                                    theme_path.name, None),
          playlist |-> pl, saves |-> FALSE]
    ELSE IF "theme.txt" \notin PathFiles(theme_path, catalog)
    THEN [result |-> ThemeOperation(FALSE, "Invalid GRUB theme: missing theme.txt file",
                                    <<>>, None),
          playlist |-> pl, saves |-> FALSE]
    ELSE [result |-> ThemeOperation(TRUE, "Theme '{name}' added to playlist",
                                    theme_path.name, theme_path.name),
          playlist |-> Append(pl, theme_path.name), saves |-> TRUE]

\* RemoveTheme leaving the current theme record as it is
RemoveThemeKeepsCurrent(theme_name, pl, cur) ==
    IF theme_name \notin Range(pl)
    THEN [result |-> ThemeOperation(FALSE, "Theme '{name}' is not in playlist",
                                    theme_name, None),
          playlist |-> pl, current_theme |-> cur, saves |-> FALSE]
    ELSE [result |-> ThemeOperation(TRUE, "Theme '{name}' removed from playlist",
                                    theme_name, None),
          playlist |-> ListRemove(pl, theme_name),
          current_theme |-> cur,
          saves |-> TRUE]

\* RemoveTheme deleting every occurrence of the name
RemoveThemeEvery(theme_name, pl, cur) ==
    IF theme_name \notin Range(pl)
    THEN [result |-> ThemeOperation(FALSE, "Theme '{name}' is not in playlist",
                                    theme_name, None),
          playlist |-> pl, current_theme |-> cur, saves |-> FALSE]
    ELSE [result |-> ThemeOperation(TRUE, "Theme '{name}' removed from playlist",
                                    theme_name, None),
          playlist |-> Remove(pl, theme_name),
          current_theme |-> IF cur = theme_name THEN None ELSE cur,
          saves |-> TRUE]

\* remove_theme: [result, playlist, current_theme, saves]
RemoveTheme(theme_name, pl, cur) ==
    IF theme_name \notin Range(pl)
    THEN [result |-> ThemeOperation(FALSE, "Theme '{name}' is not in playlist",
                                    theme_name, None),
          playlist |-> pl, current_theme |-> cur, saves |-> FALSE]
    ELSE [result |-> ThemeOperation(TRUE, "Theme '{name}' removed from playlist",
                                    theme_name, None),
          playlist |-> ListRemove(pl, theme_name),
          current_theme |-> IF cur = theme_name THEN None ELSE cur,
          saves |-> TRUE]

(***************************************************************************)
(* File names (sequences of characters): Path.suffix, Path.stem,           *)
(* str.lower and _extract_theme_name_from_file.                            *)
(***************************************************************************)
DOT == "."
ExtZip == <<".", "z", "i", "p">>
ExtTar == <<".", "t", "a", "r">>
ExtTgz == <<".", "t", "g", "z">>
ExtGz == <<".", "g", "z">>
ExtBz2 == <<".", "b", "z", "2">>
ExtXz == <<".", "x", "z">>
ExtTarGz == ExtTar \o ExtGz
ExtTarBz2 == ExtTar \o ExtBz2
ExtTarXz == ExtTar \o ExtXz

\* the index of the dot that starts the final suffix, 0 when the name has no
\* suffix: i = name.rfind('.') with 0 < i < len(name) - 1 (0-based)
SuffixStart(name) ==
    LET i == LastIn(name, {DOT}, Len(name))
    IN  IF 1 < i /\ i < Len(name) THEN i ELSE 0

\* Path.suffix
Suffix(name) ==
    IF SuffixStart(name) = 0 THEN <<>> ELSE SubSeq(name, SuffixStart(name), Len(name))

\* Path.stem
Stem(name) ==
    IF SuffixStart(name) = 0 THEN name ELSE SubSeq(name, 1, SuffixStart(name) - 1)

LowerChar(c) ==
    CASE c = "Z" -> "z" [] c = "I" -> "i" [] c = "P" -> "p" [] c = "T" -> "t"
      [] c = "A" -> "a" [] c = "R" -> "r" [] c = "G" -> "g" [] c = "B" -> "b"
      [] OTHER -> c

\* str.lower
Lower(name) == [i \in 1..Len(name) |-> LowerChar(name[i])]

\* ExtractThemeNameFromFile removing the final suffix only
ExtractStemOnly(file_name) == Stem(file_name)

\* _extract_theme_name_from_file
ExtractThemeNameFromFile(file_name) ==
    IF EndsWith(file_name, ExtTarGz) THEN DropLast(file_name, 7)
    ELSE IF EndsWith(file_name, ExtTarBz2) THEN DropLast(file_name, 8)
    ELSE IF EndsWith(file_name, ExtTarXz) THEN DropLast(file_name, 7)
    ELSE Stem(file_name)

\* install_theme_from_file, the name it installs under: the explicit name
\* unless it is None or empty
ResolveThemeName(file_name, theme_name) ==
    IF theme_name = None \/ theme_name = <<>>
    THEN ExtractThemeNameFromFile(file_name)
    ELSE theme_name

(***************************************************************************)
(* The installer pipeline.                                                 *)
(* A source is [name, exists, is_dir, format, tree]: format is what the    *)
(* bytes of a regular file are ("zip", "tar" or "other"), tree the staged  *)
(* content, a function from directory paths (<<>> is the root) to the sets *)
(* of file names they hold.                                                *)
(***************************************************************************)
IsProperPrefix(p, q) == Len(p) < Len(q) /\ SubSeq(q, 1, Len(p)) = p

Parent(d) == SubSeq(d, 1, Len(d) - 1)

\* of the directories in M, those search_path.rglob("*") can yield first:
\* the entries of a directory are yielded before those of its descendants,
\* in an order the file system chooses
FirstYielded(M) ==
    {m \in M : ~\E n \in M : IsProperPrefix(Parent(n), Parent(m))}

\* FindThemeDirectory returning the search path whatever it holds
FindThemeDirectoryRootOnly(tree) == {<<>>}

\* _find_theme_directory: the directories it can return, {} when it
\* returns None
FindThemeDirectory(tree) ==
    LET below == DOMAIN tree \ {<<>>}
        exact == {d \in below : "theme.txt" \in tree[d]}
        variant == {d \in below : tree[d] \cap ThemeFiles # {}}
    IN  IF "theme.txt" \in tree[<<>>] THEN {<<>>}
        ELSE IF exact # {} THEN FirstYielded(exact)
        ELSE FirstYielded(variant)

\* shutil.copytree: it completes, fails before it creates the target, or
\* fails after it created the target with part of the files
CopyOutcomes == {"copied", "failed", "partial"}

\* shutil.rmtree(target_dir, ignore_errors=True): the directory is removed,
\* or the removal fails and the error is ignored
RmOutcomes == {"removed", "kept"}

WithDir(catalog, name, files) ==
    [n \in DOMAIN catalog \cup {name} |-> IF n = name THEN files ELSE catalog[n]]

WithoutDir(catalog, name) == [n \in DOMAIN catalog \ {name} |-> catalog[n]]

RmTree(catalog, name, rm) ==
    IF rm = "removed" THEN WithoutDir(catalog, name) ELSE catalog

\* InstallRaised with no handler in install_theme_from_file: the exception
\* reaches the caller
InstallRaisedUncaught(catalog, target, rm) ==
    [result |-> [raised |-> "Exception"],
     themes |-> IF target \in DOMAIN catalog THEN RmTree(catalog, target, rm) ELSE catalog,
     created |-> target \in DOMAIN catalog]

\* InstallRaised without the removal of the target
InstallRaisedNoCleanup(catalog, target, rm) ==
    [result |-> ThemeOperation(FALSE, "Failed to install theme: {error}", <<>>, None),
     themes |-> catalog,
     created |-> target \in DOMAIN catalog]

\* the exception handler of the three copying methods, then the one of
\* install_theme_from_file; the target is in the catalog only if the call
\* created it
InstallRaised(catalog, target, rm) ==
    [result |-> ThemeOperation(FALSE, "Failed to install theme: {error}", <<>>, None),
     themes |-> IF target \in DOMAIN catalog THEN RmTree(catalog, target, rm) ELSE catalog,
     created |-> target \in DOMAIN catalog]

\* shutil.copytree(theme_source, target_dir), then what `after` makes of the
\* catalog that holds the copy
CopyTree(files, catalog, target, copy, rm, after(_)) ==
    IF copy = "failed" THEN InstallRaised(catalog, target, rm)
    ELSE IF copy = "partial" THEN InstallRaised(WithDir(catalog, target, {}), target, rm)
    ELSE after(WithDir(catalog, target, files))

Installed(catalog, target) ==
    [result |-> ThemeOperation(TRUE, "Theme '{name}' installed successfully", target, target),
     themes |-> catalog, created |-> TRUE]

\* _extract_zip_theme and _extract_tar_theme (kind is "zip" or "tar"):
\* found is the directory _find_theme_directory returned
ExtractTheme(kind, source, catalog, target, uid, found, copy, rm) ==
    LET validated(copied) ==
            IF ~IsValid(copied, target)
            THEN [result |-> ThemeOperation(FALSE,
                                "Extracted files are not a valid GRUB theme", <<>>, None),
                  themes |-> RmTree(copied, target, rm), created |-> TRUE]
            ELSE Installed(copied, target)
    IN  IF source.is_dir \/ source.format # kind     \* ZipFile / tarfile.open raises
        THEN InstallRaised(catalog, target, rm)
        ELSE IF uid # 0 THEN InstallRaised(catalog, target, rm)
        ELSE IF FindThemeDirectory(source.tree) = {}
        THEN [result |-> ThemeOperation(FALSE,
                            "No valid GRUB theme directory found in archive", <<kind>>, None),
              themes |-> catalog, created |-> FALSE]
        ELSE CopyTree(source.tree[found], catalog, target, copy, rm, validated)

\* _copy_theme_directory
CopyThemeDirectory(source, catalog, target, uid, copy, rm) ==
    LET done(copied) ==      \* the message is a Chinese literal, not translated
            [result |-> ThemeOperation(TRUE, "'{theme_name}' installed (zh)", target, target),
             themes |-> copied, created |-> TRUE]
    IN  IF source.tree[<<>>] \cap ThemeFiles = {}
        THEN [result |-> ThemeOperation(FALSE,
                            "Source directory is not a valid GRUB theme", <<>>, None),
              themes |-> catalog, created |-> FALSE]
        ELSE IF uid # 0 THEN InstallRaised(catalog, target, rm)
        ELSE CopyTree(source.tree[<<>>], catalog, target, copy, rm, done)

\* install_theme_from_file, the source dispatch
Dispatch(source) ==
    LET file_suffix == Lower(Suffix(source.name))
        file_name == Lower(source.name)
    IN  IF file_suffix = ExtZip THEN "zip"
        ELSE IF file_suffix \in {ExtTar, ExtTgz} \/ EndsWith(file_name, ExtTarGz) THEN "tar"
        ELSE IF source.is_dir THEN "dir"
        ELSE "unsupported"

\* target_dir.exists(): an empty name makes the target the catalog root
TargetExists(catalog, target) == target = <<>> \/ target \in DOMAIN catalog

\* install_theme_from_file: [result, themes, created], created telling whether
\* the call created the target directory
InstallThemeFromFile(source, theme_name, catalog, uid, found, copy, rm) ==
    LET target == ResolveThemeName(source.name, theme_name)
    IN  IF ~source.exists
        THEN [result |-> ThemeOperation(FALSE, "File does not exist: {path}",
                                        source.name, None),
              themes |-> catalog, created |-> FALSE]
        ELSE IF TargetExists(catalog, target)
        THEN [result |-> ThemeOperation(FALSE, "Theme already exists: {name}", target, None),
              themes |-> catalog, created |-> FALSE]
        ELSE IF Dispatch(source) \in {"zip", "tar"}
        THEN ExtractTheme(Dispatch(source), source, catalog, target, uid, found, copy, rm)
        ELSE IF Dispatch(source) = "dir"
        THEN CopyThemeDirectory(source, catalog, target, uid, copy, rm)
        ELSE [result |-> ThemeOperation(FALSE, "Unsupported file type: {type}",
                                        Suffix(source.name), None),
              themes |-> catalog, created |-> FALSE]

\* the directories `found` ranges over: those _find_theme_directory can
\* return, and the root when it returns None (found is then not used)
FoundChoices(source) ==
    IF FindThemeDirectory(source.tree) = {} THEN {<<>>}
    ELSE FindThemeDirectory(source.tree)

(***************************************************************************)
(* install_theme_from_url.                                                 *)
(* A url is [filename, download, format, tree]: the last component of its  *)
(* path, whether urlopen delivers, and the content it delivers.            *)
(***************************************************************************)
\* the random part of the name NamedTemporaryFile gives the download
TmpName == <<"t", "m", "p">>

DefaultFilename == <<"t", "h", "e", "m", "e">> \o ExtZip

\* the temporary file the download is written to
TmpFile(url) ==
    LET filename == IF url.filename = <<>> THEN DefaultFilename ELSE url.filename
    IN  [name |-> TmpName \o Suffix(filename), exists |-> TRUE, is_dir |-> FALSE,
         format |-> url.format, tree |-> url.tree]

\* install_theme_from_url: [result, themes, created]
InstallThemeFromUrl(url, theme_name, catalog, uid, found, copy, rm) ==
    IF url.download # "ok"
    THEN [result |-> ThemeOperation(FALSE, "Failed to install theme from URL: {error}",
                                    <<>>, None),
          themes |-> catalog, created |-> FALSE]
    ELSE InstallThemeFromFile(TmpFile(url), theme_name, catalog, uid, found, copy, rm)

\* install_theme_from_url, the temporary files the call leaves on disk.
\* NamedTemporaryFile(delete=False) creates the file before urlopen is
\* called; tmp_path.unlink is in the finally of the try entered after the
\* download, so a download that raises leaves the file
DownloadLeaves(url) ==
    IF url.download # "ok" THEN {TmpFile(url).name} ELSE {}

(***************************************************************************)
(* The calls.  last records the call: op its name, arg its argument,       *)
(* result the ThemeOperation returned, update the result of                *)
(* _update_grub_config, ran the candidates run with their outcomes,        *)
(* selected the theme random_theme passed to set_theme, saved the outcome  *)
(* of save_playlist ("none" when the call did not save), created whether   *)
(* an install created its target directory.                                *)
(***************************************************************************)
Call(op, arg, result, update, ran, selected, saved, created) ==
    [op |-> op, arg |-> arg, result |-> result, update |-> update, ran |-> ran,
     selected |-> selected, saved |-> saved, created |-> created]

NoCall == Call("init", <<>>, NoOperation, NoOperation, <<>>, None, "none", FALSE)

NoRequest == [file_name |-> <<>>, theme_name |-> None]

\* ThemeManager.load_playlist
LoadPlaylist ==
    /\ playlist' = LoadedPlaylist(config_file)
    /\ current_theme' = GetCurrentThemeFromGrub(grub_default)
    /\ last' = Call("load_playlist", <<>>, NoOperation, NoOperation, <<>>, None, "none", FALSE)
    /\ UNCHANGED <<config_file, grub_default, themes, euid, system, request,
                   tmp_files>>

\* ThemeManager.save_playlist
SavePlaylist ==
    \E sv \in SaveOutcomes :
        /\ config_file' = SavedFile(config_file, playlist, grub_default, sv)
        /\ last' = Call("save_playlist", <<>>, NoOperation, NoOperation, <<>>, None, sv, FALSE)
        /\ UNCHANGED <<playlist, current_theme, grub_default, themes, euid, system, request,
                   tmp_files>>

\* ThemeManager.add_theme
AddThemeCall(theme_path) ==
    \E sv \in SaveOutcomes :
        LET r == AddTheme(theme_path, playlist, themes)
        IN  /\ r.result.success => Len(playlist) < MaxPlaylist
            /\ r.saves \/ sv = "written"
            /\ playlist' = r.playlist
            /\ config_file' = IF r.saves
                              THEN SavedFile(config_file, r.playlist, grub_default, sv)
                              ELSE config_file
            /\ last' = Call("add_theme", theme_path, r.result, NoOperation, <<>>, None,
                            IF r.saves THEN sv ELSE "none", FALSE)
            /\ UNCHANGED <<current_theme, grub_default, themes, euid, system, request,
                   tmp_files>>

\* ThemeManager.remove_theme
RemoveThemeCall(theme_name) ==
    \E sv \in SaveOutcomes :
        LET r == RemoveTheme(theme_name, playlist, current_theme)
        IN  /\ r.saves \/ sv = "written"
            /\ playlist' = r.playlist
            /\ current_theme' = r.current_theme
            /\ config_file' = IF r.saves
                              THEN SavedFile(config_file, r.playlist, grub_default, sv)
                              ELSE config_file
            /\ last' = Call("remove_theme", theme_name, r.result, NoOperation, <<>>, None,
                            IF r.saves THEN sv ELSE "none", FALSE)
            /\ UNCHANGED <<grub_default, themes, euid, system, request, tmp_files>>

\* the state after set_theme(theme_name), called by `op`
SetThemeStep(op, theme_name, selected) ==
    \E sv \in SaveOutcomes :
        LET r == SetTheme(theme_name, playlist, current_theme, config_file, grub_default,
                          themes, euid, system, sv)
        IN  /\ r.saved # "none" \/ sv = "written"
            /\ current_theme' = r.current_theme
            /\ config_file' = r.config_file
            /\ grub_default' = r.grub
            /\ last' = Call(op, theme_name, r.result, r.update, r.ran, selected, r.saved,
                            FALSE)
            /\ UNCHANGED <<playlist, themes, euid, system, request, tmp_files>>

\* ThemeManager.set_theme
SetThemeCall(theme_name) == SetThemeStep("set_theme", theme_name, None)

\* ThemeManager.random_theme
RandomThemeCall ==
    LET available_themes == AvailableThemes(playlist, current_theme)
    IN  IF available_themes = <<>>
        THEN /\ last' = Call("random_theme", <<>>, RandomFailure(playlist), NoOperation,
                             <<>>, None, "none", FALSE)
             /\ UNCHANGED <<playlist, current_theme, config_file, grub_default, themes,
                            euid, system, request, tmp_files>>
        ELSE \E selected_theme \in Range(available_themes) :
                 SetThemeStep("random_theme", selected_theme, selected_theme)

\* ThemeManager.install_theme_from_file
InstallFromFileCall(source, theme_name) ==
    \E found \in FoundChoices(source), copy \in CopyOutcomes, rm \in RmOutcomes :
        LET r == InstallThemeFromFile(source, theme_name, themes, euid, found, copy, rm)
        IN  /\ themes' = r.themes
            /\ last' = Call("install_theme_from_file",
                            [source |-> source, theme_name |-> theme_name,
                             copy |-> copy, rm |-> rm],
                            r.result, NoOperation, <<>>, None, "none", r.created)
            /\ UNCHANGED <<playlist, current_theme, config_file, grub_default, euid,
                           system, request, tmp_files>>

\* ThemeManager.install_theme_from_url
InstallFromUrlCall(url, theme_name) ==
    \E found \in FoundChoices(url), copy \in CopyOutcomes, rm \in RmOutcomes :
        LET r == InstallThemeFromUrl(url, theme_name, themes, euid, found, copy, rm)
        IN  /\ themes' = r.themes
            /\ tmp_files' = tmp_files \cup DownloadLeaves(url)
            /\ last' = Call("install_theme_from_url",
                            [source |-> url, theme_name |-> theme_name,
                             copy |-> copy, rm |-> rm],
                            r.result, NoOperation, <<>>, None, "none", r.created)
            /\ UNCHANGED <<playlist, current_theme, config_file, grub_default, euid,
                           system, request>>

(***************************************************************************)
(* The worlds the specifications start in.                                 *)
(***************************************************************************)
NameA == <<"a">>
NameB == <<"b">>
NameC == <<"c">>
NameD == <<"d">>

\* lines of /etc/default/grub
OtherLine == <<"GRUB_TIMEOUT=5">>
IndentedLine(name) == <<SP>> \o ThemeLine(name)
CommentedLine(name) == <<HASH>> \o ThemeLine(name)
ForeignLine == <<GRUB_THEME, DQ, "/boot/grub/themes/x/theme.txt", DQ>>
VariantLine(name) == <<GRUB_THEME, DQ, ThemesRoot>> \o name \o <<"/Theme.txt", DQ>>
\* a comment that a form feed separates from a setting it comments out
FormFeedLine == <<HASH, " disabled:", FF, "GRUB_DISABLE_RECOVERY=true">>

MissingFile == [exists |-> FALSE, text |-> <<>>]

\* the boot config file that holds the lines
GrubFile(lines) ==
    [exists |-> TRUE, text |-> IF lines = <<>> THEN <<>> ELSE JoinLines(lines) \o <<NL>>]

\* the playlist file save_playlist wrote for a playlist and a current theme
PlaylistFile(pl, cur) ==
    [exists |-> TRUE,
     text |-> JsonDumps([playlist |-> pl, current_theme |-> cur, last_updated |-> Cwd])]

\* playlist files that are no JSON, no object, or hold no list
GarbageFile == [exists |-> TRUE, text |-> <<LBrace, JKey("playlist"), JGarbage>>]
ListFile == [exists |-> TRUE, text |-> <<LBrack, JStr(NameA), RBrack>>]
NotListFile ==
    [exists |-> TRUE, text |-> <<LBrace, JKey("playlist"), JStr(NameA), RBrace>>]

InitConfigFiles ==
    {MissingFile, GarbageFile, NotListFile}
        \cup {PlaylistFile(pl, NameB) : pl \in SeqsUpTo({NameA, NameB}, MaxFileList)}

InitGrubFiles ==
    {MissingFile,
     GrubFile(<<OtherLine, ThemeLine(NameA)>>),
     GrubFile(<<OtherLine>>)}

Catalog(aFiles, bFiles) ==
    [n \in {NameA, NameB} |-> IF n = NameA THEN aFiles ELSE bFiles]

InitCatalogs ==
    {Catalog({"theme.txt"}, {"theme.txt", "bg.png"}),
     Catalog({"theme.txt"}, {"Theme.txt"})}

Root == 0
User == Root + 1000

System(family, is_uefi, commands) ==
    [family |-> family, is_uefi |-> is_uefi, commands |-> commands]

AllZero == [c \in AllCommands |-> "zero"]

AllFail ==
    [c \in AllCommands |->
        IF c = UpdateGrub THEN "notfound"
        ELSE IF c = GrubMkconfig THEN "nonzero"
        ELSE IF c = Grub2MkconfigEfi THEN "timeout" ELSE "error"]

InitSystems == {System("debian", FALSE, AllZero), System("fedora", TRUE, AllFail)}

\* the effective user and the host of a run
InitHosts ==
    {<<Root, System("debian", FALSE, AllZero)>>,
     <<Root, System("fedora", TRUE, AllFail)>>,
     <<User, System("debian", FALSE, AllZero)>>}

\* the sources of the installs
Tree(rootFiles, subFiles) ==
    [d \in {<<>>, <<"sub">>} |-> IF d = <<>> THEN rootFiles ELSE subFiles]

Source(name, exists, is_dir, format, tree) ==
    [name |-> name, exists |-> exists, is_dir |-> is_dir, format |-> format, tree |-> tree]

Sources ==
    {Source(NameC \o ExtZip, TRUE, FALSE, "zip", Tree({}, {"theme.txt", "bg.png"})),
     Source(NameC \o ExtTarGz, TRUE, FALSE, "tar", Tree({"theme.txt"}, {})),
     Source(NameA \o ExtZip, TRUE, FALSE, "zip", Tree({"theme.txt"}, {})),
     Source(NameD \o ExtZip, TRUE, FALSE, "zip", Tree({"bg.png"}, {})),
     Source(NameD \o ExtZip, TRUE, FALSE, "other", Tree({}, {})),
     Source(NameD \o ExtGz, TRUE, FALSE, "other", Tree({}, {})),
     Source(NameD, TRUE, TRUE, "other", Tree({"Theme.txt"}, {})),
     Source(NameD, TRUE, TRUE, "other", Tree({"bg.png"}, {})),
     Source(NameD \o ExtZip, FALSE, FALSE, "other", Tree({}, {}))}

Url(filename, download, format, tree) ==
    [filename |-> filename, download |-> download, format |-> format, tree |-> tree]

Urls ==
    {Url(NameC \o ExtZip, "ok", "zip", Tree({}, {"theme.txt"})),
     Url(NameC \o ExtZip, "failed", "zip", Tree({}, {"theme.txt"})),
     Url(<<>>, "ok", "zip", Tree({"bg.png"}, {}))}

ExplicitNames == {None, NameB}

\* the paths given to add_theme
AddPaths ==
    {CatalogPath(NameA), CatalogPath(NameB), CatalogPath(NameC),
     OtherPath(NameA, FALSE, {}), OtherPath(NameB, TRUE, {})}

\* the names given to remove_theme and set_theme
ThemeNames == {NameA, NameB, NameC}

(***************************************************************************)
(* Spec: the facade of a manager constructed on a playlist file, a boot    *)
(* config file and a catalog.                                              *)
(***************************************************************************)
\* ThemeManager.__init__: the state load_playlist leaves
Constructed ==
    /\ playlist = LoadedPlaylist(config_file)
    /\ current_theme = GetCurrentThemeFromGrub(grub_default)
    /\ tmp_files = {}
    /\ request = NoRequest
    /\ last = NoCall

Init ==
    /\ config_file \in InitConfigFiles
    /\ grub_default \in InitGrubFiles
    /\ themes = Catalog({"theme.txt"}, {"Theme.txt"})
    /\ \E host \in InitHosts : euid = host[1] /\ system = host[2]
    /\ Constructed

AddStep == \E theme_path \in AddPaths : AddThemeCall(theme_path)
RemoveStep == \E theme_name \in ThemeNames : RemoveThemeCall(theme_name)
SetStep == \E theme_name \in ThemeNames : SetThemeCall(theme_name)
InstallFileStep ==
    \E source \in Sources, theme_name \in ExplicitNames :
        InstallFromFileCall(source, theme_name)
InstallUrlStep ==
    \E url \in Urls, theme_name \in ExplicitNames : InstallFromUrlCall(url, theme_name)

Next ==
    \/ LoadPlaylist
    \/ SavePlaylist
    \/ AddStep
    \/ RemoveStep
    \/ SetStep
    \/ RandomThemeCall

Spec == Init /\ [][Next]_vars

(***************************************************************************)
(* SpecFacade: one call of each of the six mutating calls of the facade on *)
(* a manager just constructed, over playlist files, boot config files,     *)
(* hosts and a catalog with a valid theme (a) and a directory that is no   *)
(* valid theme (b); add_theme is also given paths outside the catalog.     *)
(***************************************************************************)
FacadeCatalog == Catalog({"theme.txt"}, {"bg.png"})

FacadeAddPaths ==
    {CatalogPath(NameA), CatalogPath(NameB), CatalogPath(NameC),
     OtherPath(NameD, TRUE, {"theme.txt"}), OtherPath(NameD, FALSE, {})}

FacadeSources ==
    {Source(NameC \o ExtZip, TRUE, FALSE, "zip", Tree({}, {"theme.txt", "bg.png"})),
     Source(NameC \o ExtTgz, TRUE, FALSE, "tar", Tree({"theme.txt"}, {})),
     Source(NameD \o ExtZip, TRUE, FALSE, "other", Tree({}, {})),
     Source(NameD, TRUE, TRUE, "other", Tree({"Theme.txt"}, {})),
     Source(NameA, TRUE, TRUE, "other", Tree({"theme.txt"}, {})),
     Source(NameD \o ExtZip, FALSE, FALSE, "other", Tree({}, {}))}

InitFacade ==
    /\ config_file \in InitConfigFiles
    /\ grub_default \in {MissingFile, GrubFile(<<OtherLine, ThemeLine(NameB)>>),
                         GrubFile(<<OtherLine>>)}
    /\ themes = FacadeCatalog
    /\ \E host \in InitHosts : euid = host[1] /\ system = host[2]
    /\ Constructed

\* no call has been made since the construction
FirstCall == last.op = "init"

FacadeAddStep == FirstCall /\ \E theme_path \in FacadeAddPaths : AddThemeCall(theme_path)
FacadeRemoveStep == FirstCall /\ RemoveStep
FacadeSetStep == FirstCall /\ SetStep
FacadeRandomStep == FirstCall /\ RandomThemeCall
FacadeInstallFileStep ==
    FirstCall /\ \E source \in FacadeSources : InstallFromFileCall(source, None)
FacadeInstallUrlStep ==
    FirstCall /\ \E url \in Urls : InstallFromUrlCall(url, None)

NextFacade ==
    \/ FacadeAddStep
    \/ FacadeRemoveStep
    \/ FacadeSetStep
    \/ FacadeRandomStep
    \/ FacadeInstallFileStep
    \/ FacadeInstallUrlStep

SpecFacade == InitFacade /\ [][NextFacade]_vars

(***************************************************************************)
(* SpecLoad: load_playlist over the playlist files it can find.  The file  *)
(* is written by save_playlist and by whatever else writes to its path.    *)
(***************************************************************************)
BadUtf8File ==
    [exists |-> TRUE, text |-> <<LBrace, JKey("playlist"), LBrack, JBadUtf8, RBrack, RBrace>>]
NullFile == [exists |-> TRUE, text |-> <<JNull>>]
NullPlaylistFile ==
    [exists |-> TRUE, text |-> <<LBrace, JKey("playlist"), JNull, RBrace>>]
NoPlaylistFile ==
    [exists |-> TRUE, text |-> <<LBrace, JKey("current_theme"), JStr(NameA), RBrace>>]

\* the playlist files load_playlist recovers from
BrokenFiles ==
    {MissingFile, GarbageFile, BadUtf8File, ListFile, NullFile, NotListFile,
     NullPlaylistFile}

LoadFiles ==
    BrokenFiles \cup {NoPlaylistFile}
        \cup {PlaylistFile(pl, NameB) : pl \in SeqsUpTo({NameA, NameB}, MaxFileList)}

\* the environment: the playlist file is deleted or overwritten
OverwritePlaylistFile ==
    \E file \in LoadFiles :
        /\ config_file' = file
        /\ last' = Call("overwrite", <<>>, NoOperation, NoOperation, <<>>, None, "none",
                        FALSE)
        /\ UNCHANGED <<playlist, current_theme, grub_default, themes, euid, system,
                       request, tmp_files>>

InitLoad ==
    /\ config_file \in LoadFiles
    /\ grub_default \in InitGrubFiles
    /\ themes = Catalog({"theme.txt"}, {"Theme.txt"})
    /\ euid = User
    /\ system = System("debian", FALSE, AllZero)
    /\ Constructed

NextLoad ==
    \/ LoadPlaylist
    \/ SavePlaylist
    \/ RemoveStep
    \/ OverwritePlaylistFile

SpecLoad == InitLoad /\ [][NextLoad]_vars

(***************************************************************************)
(* SpecInstall: the installs into a catalog.                               *)
(***************************************************************************)
InitInstall ==
    /\ config_file = MissingFile
    /\ grub_default \in {GrubFile(<<ThemeLine(NameA)>>)}
    /\ themes \in InitCatalogs
    /\ euid \in {Root, User}
    /\ system = System("debian", FALSE, AllZero)
    /\ Constructed

NextInstall ==
    \/ InstallFileStep
    \/ InstallUrlStep

SpecInstall == InitInstall /\ [][NextInstall]_vars

(***************************************************************************)
(* SpecRegen: set_theme on every host: every family, with and without      *)
(* UEFI, every outcome of every regeneration command.                      *)
(***************************************************************************)
AllSystems ==
    {System(family, is_uefi, commands) :
        family \in Families, is_uefi \in BOOLEAN,
        commands \in [AllCommands -> CmdOutcomes]}

InitRegen ==
    /\ config_file = MissingFile
    /\ grub_default = GrubFile(<<OtherLine, ThemeLine(NameA)>>)
    /\ themes = Catalog({"theme.txt"}, {"Theme.txt"})
    /\ euid = Root
    /\ system \in AllSystems
    /\ Constructed

NextRegen == \E theme_name \in {NameB} : SetThemeCall(theme_name)

SpecRegen == InitRegen /\ [][NextRegen]_vars

(***************************************************************************)
(* SpecGrub: set_theme and load_playlist over the contents of the boot     *)
(* config file.                                                            *)
(***************************************************************************)
GrubLines ==
    {OtherLine, ThemeLine(NameA), IndentedLine(NameA), CommentedLine(NameA),
     ForeignLine, VariantLine(NameA), FormFeedLine}

GrubContents ==
    {MissingFile} \cup {GrubFile(lines) : lines \in SeqsUpTo(GrubLines, MaxGrubLines)}

InitGrub ==
    /\ config_file = PlaylistFile(<<NameA, NameB>>, NameC)
    /\ grub_default \in GrubContents
    /\ themes = Catalog({"theme.txt"}, {"Theme.txt"})
    /\ \E host \in InitHosts : euid = host[1] /\ system = host[2]
    /\ Constructed

NextGrub ==
    \/ SetStep
    \/ LoadPlaylist

SpecGrub == InitGrub /\ [][NextGrub]_vars

(***************************************************************************)
(* SpecName: the name resolution of install_theme_from_file over file      *)
(* names and explicit names.                                               *)
(***************************************************************************)
UpperTarGz == <<".", "T", "A", "R", ".", "G", "Z">>

Extensions ==
    {<<>>, <<DOT>>, ExtZip, ExtTar, ExtTgz, ExtGz, ExtBz2, ExtTarGz, ExtTarBz2, ExtTarXz,
     UpperTarGz}

FileNames ==
    {base \o ext : base \in SeqsUpTo({"n", DOT}, MaxBaseLen), ext \in Extensions}

InitName ==
    /\ request \in [file_name : FileNames, theme_name : {None, <<>>, NameB}]
    /\ config_file = MissingFile
    /\ grub_default = MissingFile
    /\ themes = Catalog({"theme.txt"}, {"Theme.txt"})
    /\ euid = Root
    /\ system = System("debian", FALSE, AllZero)
    /\ playlist = <<>>
    /\ current_theme = None
    /\ tmp_files = {}
    /\ last = NoCall

\* install_theme_from_file, the name resolution alone
ResolveStep ==
    /\ last.op = "init"
    /\ last' = Call("resolve_theme_name", request,
                    ThemeOperation(TRUE, "", <<>>,
                                   ResolveThemeName(request.file_name, request.theme_name)),
                    NoOperation, <<>>, None, "none", FALSE)
    /\ UNCHANGED <<playlist, current_theme, config_file, grub_default, themes, euid,
                   system, request, tmp_files>>

SpecName == InitName /\ [][ResolveStep]_vars

(***************************************************************************)
(* The claims.                                                             *)
(***************************************************************************)

\* C1: round trip of the playlist store.  When a call has written the
\* playlist file (save_playlist completed) and load_playlist follows, the
\* playlist in memory after the load equals the one that was saved, element
\* for element and in the same order.
RoundTrip ==
    [][(last.saved = "written" /\ last'.op = "load_playlist") => playlist' = playlist]_vars

\* a load has brought back a playlist of two different names from the file a
\* save wrote (the current_theme it holds is the one of the boot config, not
\* the one of the initial files)
RoundTripWitness ==
    /\ last.op = "load_playlist"
    /\ Len(playlist) >= 2
    /\ playlist[1] # playlist[2]
    /\ GetCurrentThemeFromGrub(grub_default) # NameB
    /\ config_file = [exists |-> TRUE, text |-> SavedText(playlist, grub_default)]

\* C2 as stated: add_theme of a path whose final component is in the playlist
\* gives 'already in playlist' and leaves the playlist unchanged, whatever
\* else is true of the path.
AddPresentNameAlreadyInPlaylist ==
    [][(last'.op = "add_theme" /\ last'.arg.name \in Range(playlist))
        => /\ ~last'.result.success
           /\ last'.result.message.text = "Theme '{name}' is already in playlist"
           /\ playlist' = playlist]_vars

\* C2 as amended: add_theme of a path whose final component is in the
\* playlist fails and leaves the playlist and the playlist file unchanged;
\* the outcome is 'already in playlist' when the path exists and 'path does
\* not exist' when it does not.
AddPresentNameFails ==
    [][(last'.op = "add_theme" /\ last'.arg.name \in Range(playlist))
        => /\ ~last'.result.success
           /\ last'.result.message.text =
                  IF PathExists(last'.arg, themes)
                  THEN "Theme '{name}' is already in playlist"
                  ELSE "Theme path does not exist: {path}"
           /\ last'.result.message.arg = last'.arg.name
           /\ playlist' = playlist
           /\ config_file' = config_file]_vars

\* an existing directory without theme.txt, whose name is in the playlist,
\* was refused as already in the playlist
AddPresentNameWitness ==
    /\ last.op = "add_theme"
    /\ last.arg = OtherPath(NameB, TRUE, {})
    /\ NameB \in Range(playlist)
    /\ last.result.message.text = "Theme '{name}' is already in playlist"

\* C3: after _update_grub_config has written the directive for theme T,
\* _get_current_theme_from_grub returns T, whatever the boot config held
\* before and whatever current_theme the playlist file holds.
CurrentThemeAuthority ==
    (last.op = "set_theme" /\ last.ran # <<>>)
        => GetCurrentThemeFromGrub(grub_default) = last.arg

\* C4: with a playlist of at least 2 entries, the theme random_theme passes
\* to set_theme differs from the current theme held before the call.
RandomNeverCurrent ==
    [][(last'.op = "random_theme" /\ Len(playlist) >= 2)
        => (last'.selected # None /\ last'.selected # current_theme)]_vars

\* C5: random_theme fails without a call of set_theme and without a change
\* of the boot config when the playlist is empty or is exactly one entry
\* equal to the current theme; otherwise the theme it passes to set_theme is
\* an element of the playlist.
RandomChoice ==
    [][last'.op = "random_theme"
        => IF playlist = <<>> \/ playlist = <<current_theme>>
           THEN /\ ~last'.result.success
                /\ last'.selected = None
                /\ last'.update = NoOperation
                /\ last'.ran = <<>>
                /\ grub_default' = grub_default
           ELSE /\ last'.selected # None
                /\ last'.selected \in Range(playlist)
                /\ last'.arg = last'.selected]_vars

\* random_theme refused a playlist that is the current theme alone
RandomChoiceWitness ==
    /\ last.op = "random_theme"
    /\ playlist = <<current_theme>>
    /\ last.result.message.text = "Only one theme in playlist"
    /\ last.selected = None

\* set_theme reached the rewrite of the boot config and the regeneration:
\* the theme is valid, the process is root and the config file exists
Regenerated ==
    /\ last.op = "set_theme"
    /\ IsValid(themes, last.arg)
    /\ euid = Root
    /\ grub_default.exists

\* no regeneration command of the host exits zero
AllCandidatesFail(sys) ==
    \A c \in Range(GetGrubUpdateCommands(sys)) : sys.commands[c] # "zero"

\* C6: the candidates are run strictly in list order; a candidate that is
\* not found, times out, raises or exits non-zero is followed by the next
\* one; the first that exits zero ends the iteration and the result is a
\* success naming it.
RegenerationFallback ==
    Regenerated =>
        LET cmds == GetGrubUpdateCommands(system)
            ran == last.ran
            n == Len(ran)
        IN  /\ n >= 1
            /\ n <= Len(cmds)
            /\ \A i \in 1..n :
                   ran[i].cmd = cmds[i] /\ ran[i].outcome = system.commands[cmds[i]]
            /\ \A i \in 1..(n - 1) : ran[i].outcome # "zero"
            /\ ran[n].outcome # "zero" => n = Len(cmds)
            /\ ran[n].outcome = "zero" =>
                   /\ last.update.success
                   /\ last.update.message =
                          [text |-> "GRUB config updated successfully (using: {cmd})",
                           arg |-> <<cmds[n][1]>>]
                   /\ last.result.success

\* the first candidate exited non-zero, the second exited zero, and the
\* success names the second
RegenerationFallbackWitness ==
    /\ Regenerated
    /\ Len(last.ran) = 2
    /\ last.ran[1].outcome = "nonzero"
    /\ last.ran[2].outcome = "zero"
    /\ last.update.success
    /\ last.update.message.arg = <<GetGrubUpdateCommands(system)[2][1]>>

\* C7: if every candidate fails, the update returns a failure whose message
\* carries the error of the last candidate of the list, and every candidate
\* has been run exactly once.
RegenerationExhausted ==
    (Regenerated /\ AllCandidatesFail(system)) =>
        LET cmds == GetGrubUpdateCommands(system)
            final == cmds[Len(cmds)]
        IN  /\ ~last.result.success
            /\ last.result.message =
                   [text |-> "All GRUB update commands failed. Last error: {error}",
                    arg |-> <<system.commands[final], final[1]>>]
            /\ [i \in 1..Len(last.ran) |-> last.ran[i].cmd] = cmds

\* four candidates failed, the last of them by an exception, the one before
\* by a non-zero exit
RegenerationExhaustedWitness ==
    /\ Regenerated
    /\ AllCandidatesFail(system)
    /\ Len(last.ran) = 4
    /\ last.ran[3].outcome = "nonzero"
    /\ last.ran[4].outcome = "timeout"
    /\ ~last.result.success

\* C8: when set_theme(T) rewrites the boot config and every candidate fails,
\* the call fails, the boot config keeps the directive for T, the current
\* theme in memory keeps its value and the playlist file is not saved again.
NoRevertAfterFailedRegeneration ==
    [][(/\ last'.op = "set_theme"
        /\ IsValid(themes, last'.arg)
        /\ euid = Root
        /\ grub_default.exists
        /\ AllCandidatesFail(system))
        => /\ ~last'.result.success
           /\ grub_default'.exists
           /\ ThemeLine(last'.arg) \in Range(SplitLines(grub_default'.text))
           /\ current_theme' = current_theme
           /\ config_file' = config_file
           /\ last'.saved = "none"]_vars

\* set_theme(b) failed in the regeneration: the boot config names b, the
\* manager still holds a
NoRevertWitness ==
    /\ Regenerated
    /\ AllCandidatesFail(system)
    /\ last.arg = NameB
    /\ ~last.result.success
    /\ GetCurrentThemeFromGrub(grub_default) = NameB
    /\ current_theme = NameA

\* the calls that install
Installs == {"install_theme_from_file", "install_theme_from_url"}

\* the name an install installs under
InstallTarget(call) ==
    ResolveThemeName(IF call.op = "install_theme_from_url"
                     THEN TmpFile(call.arg.source).name
                     ELSE call.arg.source.name,
                     call.arg.theme_name)

\* C9 as stated: every install that returns failure leaves the catalog
\* exactly as it was before the call.
FailedInstallLeavesCatalog ==
    [][(last'.op \in Installs /\ ~last'.result.success) => themes' = themes]_vars

\* C9 as amended: every install that returns failure leaves every entry the
\* catalog held as it was, and adds none, except that the target directory
\* the call created stays when its removal fails (rmtree ignores the error).
FailedInstallRollsBack ==
    [][(last'.op \in Installs /\ ~last'.result.success)
        => /\ \A n \in DOMAIN themes : n \in DOMAIN themes' /\ themes'[n] = themes[n]
           /\ DOMAIN themes' \subseteq DOMAIN themes \cup {InstallTarget(last')}
           /\ last'.arg.rm = "removed" => themes' = themes]_vars

\* an install created its target, failed in the copy and removed the target
FailedInstallWitness ==
    /\ last.op = "install_theme_from_file"
    /\ ~last.result.success
    /\ last.created
    /\ last.arg.copy = "partial"
    /\ last.arg.rm = "removed"
    /\ InstallTarget(last) \notin DOMAIN themes

\* the compound extensions of the name resolution
CompoundExtensions == {ExtTarGz, ExtTarBz2, ExtTarXz}

\* C10: an explicit non-empty name is used as is; otherwise a file name
\* ending in .tar.gz, .tar.bz2 or .tar.xz resolves to the name without the
\* whole compound extension, and any other file name to the name without its
\* final suffix.
NameResolution ==
    last.op = "resolve_theme_name" =>
        LET file_name == request.file_name
            resolved == last.result.theme
        IN  IF request.theme_name \notin {None, <<>>}
            THEN resolved = request.theme_name
            ELSE IF \E ext \in CompoundExtensions : EndsWith(file_name, ext)
            THEN \E ext \in CompoundExtensions :
                     EndsWith(file_name, ext) /\ file_name = resolved \o ext
            ELSE file_name = resolved \o Suffix(file_name)

\* n.tar.gz without an explicit name resolved to n
NameResolutionWitness ==
    /\ last.op = "resolve_theme_name"
    /\ request = [file_name |-> <<"n">> \o ExtTarGz, theme_name |-> None]
    /\ last.result.theme = <<"n">>

\* the one subdirectory of a staged archive
Sub == <<"sub">>

\* C11: with elevated privilege and no name collision, the install of a zip
\* whose root holds one subdirectory with theme.txt, under no explicit name,
\* succeeds once the copy into the catalog completes: the catalog gets an
\* entry named after the stem of the archive, its content is that of the
\* subdirectory, and the entry is a valid theme.
ArchiveInstall ==
    [][(/\ last'.op = "install_theme_from_file"
        /\ last'.arg.source.exists
        /\ ~last'.arg.source.is_dir
        /\ last'.arg.source.format = "zip"
        /\ Suffix(last'.arg.source.name) = ExtZip
        /\ "theme.txt" \notin last'.arg.source.tree[<<>>]
        /\ "theme.txt" \in last'.arg.source.tree[Sub]
        /\ last'.arg.theme_name = None
        /\ euid = Root
        /\ ~TargetExists(themes, Stem(last'.arg.source.name))
        /\ last'.arg.copy = "copied")
       => LET name == Stem(last'.arg.source.name)
          IN  /\ last'.result.success
              /\ DOMAIN themes' = DOMAIN themes \cup {name}
              /\ themes'[name] = last'.arg.source.tree[Sub]
              /\ \A n \in DOMAIN themes : themes'[n] = themes[n]
              /\ IsValid(themes', name)]_vars

\* c.zip, with theme.txt and bg.png in its subdirectory, is installed as c
ArchiveInstallWitness ==
    /\ last.op = "install_theme_from_file"
    /\ last.arg.source.name = NameC \o ExtZip
    /\ last.arg.source.tree[<<>>] = {}
    /\ last.arg.theme_name = None
    /\ last.result.success
    /\ NameC \in DOMAIN themes
    /\ themes[NameC] = {"theme.txt", "bg.png"}

\* the calls that change the boot config or the catalog
GatedCalls ==
    {"set_theme", "random_theme", "install_theme_from_file", "install_theme_from_url"}

\* C12: when the process lacks elevated privilege, every call of set_theme,
\* random_theme, install_theme_from_file and install_theme_from_url returns
\* a failure and leaves the boot config file and the catalog unchanged, and
\* no regeneration command is run.
PrivilegeGate ==
    [][(euid # Root /\ last'.op \in GatedCalls)
        => /\ ~last'.result.success
           /\ grub_default' = grub_default
           /\ themes' = themes
           /\ last'.ran = <<>>]_vars

\* set_theme of a valid theme, with a boot config file, denied for want of
\* privilege
PrivilegeGateWitness ==
    /\ euid # Root
    /\ last.op = "set_theme"
    /\ last.arg = NameA
    /\ IsValid(themes, NameA)
    /\ grub_default.exists
    /\ ~last.result.success
    /\ last.result.message.arg = <<"PermissionError">>

\* the cases of C13: the playlist file is missing, is not decodable as
\* UTF-8, is no JSON, is JSON whose top-level value is no object, or is an
\* object whose playlist field is no list
Unloadable(file) ==
    \/ ~file.exists
    \/ JBadUtf8 \in Range(file.text)
    \/ JsonLoads(file.text).error
    \/ ~JsonLoads(file.text).isdict
    \/ /\ "playlist" \in DOMAIN JsonLoads(file.text).fields
       /\ JsonLoads(file.text).fields["playlist"].type # "list"

\* C13: load_playlist on a playlist file that is missing, undecodable, no
\* JSON, no object or without a list in its playlist field leaves the
\* playlist in memory empty and the current theme in memory equal to the one
\* derived from the boot config file.
LoadDegrades ==
    [][(last'.op = "load_playlist" /\ Unloadable(config_file))
        => /\ playlist' = <<>>
           /\ current_theme' = GetCurrentThemeFromGrub(grub_default)]_vars

\* a load found a playlist file whose playlist field is a string, with a
\* theme set in the boot config
LoadDegradesWitness ==
    /\ last.op = "load_playlist"
    /\ config_file = NotListFile
    /\ playlist = <<>>
    /\ current_theme = NameA

\* the mutating calls of the facade
FacadeCalls ==
    {"add_theme", "remove_theme", "set_theme", "random_theme",
     "install_theme_from_file", "install_theme_from_url"}

\* what a call returned is a ThemeOperation
IsThemeOperation(r) ==
    /\ DOMAIN r = {"success", "message", "theme"}
    /\ r.success \in BOOLEAN

\* the environment failed the last call: a file it needs is missing, the
\* privilege is denied, the archive is corrupt, the download or the copy
\* into the catalog failed, or no regeneration command exits zero
EnvironmentFailed ==
    \/ /\ last.op = "add_theme"
       /\ ~PathExists(last.arg, themes)
    \/ /\ last.op \in {"set_theme", "random_theme"}
       /\ last.op = "set_theme" \/ last.selected # None
       /\ \/ euid # Root
          \/ ~grub_default.exists
          \/ AllCandidatesFail(system)
    \/ /\ last.op = "install_theme_from_file"
       /\ \/ ~last.arg.source.exists
          \/ euid # Root
          \/ Dispatch(last.arg.source) \in {"zip", "tar"}
                /\ last.arg.source.format # Dispatch(last.arg.source)
          \/ last.arg.copy # "copied"
    \/ /\ last.op = "install_theme_from_url"
       /\ \/ last.arg.source.download # "ok"
          \/ euid # Root
          \/ last.arg.source.format # Dispatch(TmpFile(last.arg.source))
          \/ last.arg.copy # "copied"

\* C14: each of add_theme, remove_theme, set_theme, random_theme,
\* install_theme_from_file and install_theme_from_url returns a
\* ThemeOperation, never an exception, and the ThemeOperation has success
\* false when the environment failed the call.
NoExceptionCrossesFacade ==
    last.op \in FacadeCalls
        => /\ IsThemeOperation(last.result)
           /\ EnvironmentFailed => ~last.result.success

\* the install of a file that is no zip archive under a .zip name, by root:
\* zipfile.ZipFile raised and the call returned a failure
NoExceptionWitness ==
    /\ last.op = "install_theme_from_file"
    /\ euid = Root
    /\ last.arg.source.exists
    /\ Dispatch(last.arg.source) = "zip"
    /\ last.arg.source.format = "other"
    /\ IsThemeOperation(last.result)
    /\ ~last.result.success
    /\ last.result.message.text = "Failed to install theme: {error}"

\* the calls that change the playlist or the current theme
PlaylistCalls == {"add_theme", "remove_theme", "set_theme", "random_theme"}

\* C15 as stated: every successful mutating call of the facade (add_theme,
\* remove_theme, set_theme, random_theme, install_theme_from_file,
\* install_theme_from_url) saves the playlist state to the playlist file
\* before it returns.
SuccessfulCallSaves ==
    (last.op \in FacadeCalls /\ last.result.success) => last.saved # "none"

\* C15 as amended: every successful add_theme, remove_theme, set_theme and
\* random_theme calls save_playlist before it returns, and the file a
\* completed save leaves holds the playlist in memory; the installs, which
\* change neither the playlist nor the current theme, do not save and leave
\* the playlist file as it was.
SuccessfulPlaylistCallSaves ==
    [][/\ (last'.op \in PlaylistCalls /\ last'.result.success)
            => /\ last'.saved # "none"
               /\ last'.saved = "written"
                    => config_file' = [exists |-> TRUE,
                                       text |-> SavedText(playlist', grub_default')]
       /\ last'.op \in Installs
            => /\ last'.saved = "none"
               /\ config_file' = config_file
               /\ playlist' = playlist
               /\ current_theme' = current_theme]_vars

\* add_theme succeeded and its save wrote the playlist with the new name
SuccessfulSaveWitness ==
    /\ last.op = "add_theme"
    /\ last.result.success
    /\ last.saved = "written"
    /\ Len(playlist) >= 2
    /\ config_file = [exists |-> TRUE, text |-> SavedText(playlist, grub_default)]

\* C16: after every completed save_playlist, the current_theme field of the
\* playlist file is the theme derived from the boot config file at the time
\* of the save, null when there is none, whatever the current theme in
\* memory is.
SavedCurrentTheme ==
    last.saved = "written"
        => LET data == JsonLoads(config_file.text)
               derived == GetCurrentThemeFromGrub(grub_default)
           IN  /\ ~data.error
               /\ data.isdict
               /\ "current_theme" \in DOMAIN data.fields
               /\ IF derived = None
                  THEN data.fields["current_theme"].type = "null"
                  ELSE /\ data.fields["current_theme"].type = "str"
                       /\ data.fields["current_theme"].s = derived

\* a save wrote the theme of the boot config while the manager held none
SavedCurrentThemeWitness ==
    /\ last.saved = "written"
    /\ current_theme = None
    /\ GetCurrentThemeFromGrub(grub_default) = NameA
    /\ JsonLoads(config_file.text).fields["current_theme"].s = NameA

\* C17: after install_theme_from_url returns, on every outcome, no temporary
\* download file created by the call remains on disk.
NoTemporaryFileRemains ==
    last.op = "install_theme_from_url" => tmp_files = {}

\* C18: in every state reachable by the calls of the facade, every name in
\* the playlist is the name of a directory of the catalog.
PlaylistWithinCatalog ==
    Range(playlist) \subseteq DOMAIN themes

\* C19: set_theme fails before it changes anything when the theme directory
\* is not in the catalog, when it is no valid theme, or when the boot config
\* file does not exist: the boot config file is unchanged (not created when
\* absent), no regeneration command is run, and the current theme in memory
\* and the playlist file are unchanged.
SetThemeFailsFast ==
    [][(/\ last'.op = "set_theme"
        /\ \/ last'.arg \notin DOMAIN themes
           \/ ~IsValid(themes, last'.arg)
           \/ ~grub_default.exists)
       => /\ ~last'.result.success
          /\ grub_default' = grub_default
          /\ last'.ran = <<>>
          /\ current_theme' = current_theme
          /\ config_file' = config_file
          /\ playlist' = playlist]_vars

\* root's set_theme of b, a directory of the catalog that holds no theme
\* file, with a boot config file in place
SetThemeFailsFastWitness ==
    /\ last.op = "set_theme"
    /\ last.arg = NameB
    /\ NameB \in DOMAIN themes
    /\ ~IsValid(themes, NameB)
    /\ euid = Root
    /\ grub_default.exists
    /\ ~last.result.success
    /\ last.result.message.text = "Invalid theme: {name}"

\* the lines of a text, a line ending at "\n" and nowhere else
RECURSIVE NewlineLines(_)
NewlineLines(text) ==
    IF text = <<>> THEN <<>>
    ELSE LET i == FirstIn(text, {NL}, 1)
         IN  IF i = 0 THEN <<text>>
             ELSE <<SubSeq(text, 1, i - 1)>>
                      \o NewlineLines(SubSeq(text, i + 1, Len(text)))

\* set_theme rewrote the boot config in this step: the theme is valid, the
\* process is root and the config file exists
Rewrites ==
    /\ last'.op = "set_theme"
    /\ IsValid(themes, last'.arg)
    /\ euid = Root
    /\ grub_default.exists

\* C20: the rewrite of the boot config changes exactly one line.  If a line
\* starts with GRUB_THEME=, the first such line is replaced by the directive
\* for the new theme and the number of lines is unchanged; otherwise the
\* directive is appended at the end; every other line keeps its content and
\* its place.
RewriteChangesOneLine ==
    [][Rewrites
        => LET old == NewlineLines(grub_default.text)
               new == NewlineLines(grub_default'.text)
               i == FirstThemeLine(old, 1)
           IN  IF i # 0
               THEN new = [old EXCEPT ![i] = ThemeLine(last'.arg)]
               ELSE new = Append(old, ThemeLine(last'.arg))]_vars

\* ---------------------------------------------------------------------
\* C21
\* ---------------------------------------------------------------------

\* the lines of a boot config that are non-comment directive lines
RECURSIVE DirectiveLines(_)
DirectiveLines(lines) ==
    IF lines = <<>> THEN <<>>
    ELSE LET line == Strip(Head(lines), {SP})
         IN  (IF StartsWith(line, <<GRUB_THEME>>) /\ ~StartsWith(line, <<HASH>>)
              THEN <<line>> ELSE <<>>) \o DirectiveLines(Tail(lines))

\* the name embedded in a path that has the catalog root as its prefix and
\* the descriptor filename at its end; absent for every other path
EmbeddedName(path) ==
    IF /\ Len(path) >= 3
       /\ Head(path) = ThemesRoot
       /\ path[Len(path)] = ThemeTxt
    THEN SubSeq(path, 2, Len(path) - 1)
    ELSE None

\* the current theme that only the first directive line decides
FirstDirectiveTheme(grub) ==
    IF ~grub.exists THEN None
    ELSE LET directives == DirectiveLines(SplitLines(grub.text))
         IN  IF directives = <<>> THEN None
             ELSE EmbeddedName(Strip(Tail(Head(directives)), {DQ, SQ}))

\* C21: the current theme read from the boot config is decided by the first
\* non-comment directive line alone: the name embedded in its path when the
\* path has the catalog-root prefix and the trailing descriptor filename,
\* absent otherwise; a missing config file gives absent.
FirstDirectiveOnly ==
    last.op = "load_playlist"
        => current_theme = FirstDirectiveTheme(grub_default)

\* ---------------------------------------------------------------------
\* SpecFind: _find_theme_directory over staged trees
\* ---------------------------------------------------------------------

StagedDirs == {<<>>, <<"sub">>, <<"sub", "deep">>, <<"alt">>}

StagedFiles == {{}, {"theme.txt"}, {"Theme.txt"}, {"bg.png"}}

StagedTrees == [StagedDirs -> StagedFiles]

InitFind ==
    /\ request \in [tree : StagedTrees]
    /\ config_file = MissingFile
    /\ grub_default = MissingFile
    /\ themes = Catalog({"theme.txt"}, {"Theme.txt"})
    /\ euid = Root
    /\ system = System("debian", FALSE, AllZero)
    /\ playlist = <<>>
    /\ current_theme = None
    /\ tmp_files = {}
    /\ last = NoCall

\* _find_theme_directory(request.tree)
FindStep ==
    /\ last.op = "init"
    /\ \E found \in (IF FindThemeDirectory(request.tree) = {} THEN {None}
                     ELSE FindThemeDirectory(request.tree)) :
           last' = Call("find_theme_directory", request,
                        ThemeOperation(found # None, "", <<>>, found),
                        NoOperation, <<>>, None, "none", FALSE)
    /\ UNCHANGED <<playlist, current_theme, config_file, grub_default, themes, euid,
                   system, request, tmp_files>>

SpecFind == InitFind /\ [][FindStep]_vars

\* ---------------------------------------------------------------------
\* C22
\* ---------------------------------------------------------------------

\* the directories of a tree that hold a descriptor under an accepted variant
DescriptorHolders(tree) == {d \in DOMAIN tree : tree[d] \cap ThemeFiles # {}}

\* C22: over a staged tree, the theme-root search returns the root when the
\* root itself holds a descriptor under any accepted filename variant,
\* otherwise a descendant directory that holds one; it finds no theme if and
\* only if no directory of the tree, the root included, holds one.
FindsThemeRoot ==
    last.op = "find_theme_directory"
        => LET holders == DescriptorHolders(last.arg.tree)
               found == last.result.theme
           IN  /\ <<>> \in holders => found = <<>>
               /\ found # None => found \in holders
               /\ found = None <=> holders = {}

\* ---------------------------------------------------------------------
\* SpecDispatch: one install_theme_from_file of a source of any name
\* ---------------------------------------------------------------------

\* what a source of a name can be: a directory, or a regular file holding
\* a zip archive, a tar archive or something else
SourceKinds ==
    {[is_dir |-> TRUE, format |-> "other"]}
        \cup [is_dir : {FALSE}, format : {"zip", "tar", "other"}]

InitDispatch ==
    /\ request \in [file_name : FileNames, kind : SourceKinds]
    /\ config_file = MissingFile
    /\ grub_default = MissingFile
    /\ themes = Catalog({"theme.txt"}, {"Theme.txt"})
    /\ euid = Root
    /\ system = System("debian", FALSE, AllZero)
    /\ playlist = LoadedPlaylist(config_file)
    /\ current_theme = GetCurrentThemeFromGrub(grub_default)
    /\ tmp_files = {}
    /\ last = NoCall

\* install_theme_from_file(request.file_name)
DispatchStep ==
    /\ last.op = "init"
    /\ InstallFromFileCall(Source(request.file_name, TRUE, request.kind.is_dir,
                                  request.kind.format, Tree({"theme.txt"}, {})),
                           None)

SpecDispatch == InitDispatch /\ [][DispatchStep]_vars

\* ---------------------------------------------------------------------
\* C23
\* ---------------------------------------------------------------------

\* the handling the statement gives a source
StatedDispatch(source) ==
    LET name == Lower(source.name)
    IN  IF source.is_dir THEN "dir"
        ELSE IF Lower(Suffix(source.name)) = ExtZip THEN "zip"
        ELSE IF Lower(Suffix(source.name)) \in {ExtTar, ExtTgz} \/ EndsWith(name, ExtTarGz)
        THEN "tar"
        ELSE "unsupported"

\* C23: an existing source that is a directory is handled by the directory
\* copy whatever its name; a regular file is handled as a zip archive when
\* its suffix is .zip and as a tar archive when its name ends in .tar, .tgz
\* or .tar.gz; every other source fails as unsupported without a change of
\* the catalog; and every file name from which name resolution strips a
\* compound archive extension is dispatched as an archive.
SourceDispatch ==
    [][last'.op = "install_theme_from_file"
        => LET source == last'.arg.source
               target == ResolveThemeName(source.name, last'.arg.theme_name)
           IN  /\ Dispatch(source) = StatedDispatch(source)
               /\ (~TargetExists(themes, target) /\ StatedDispatch(source) = "unsupported")
                      => /\ last'.result.message.text = "Unsupported file type: {type}"
                         /\ themes' = themes
               /\ (~source.is_dir /\ \E ext \in CompoundExtensions : EndsWith(source.name, ext))
                      => Dispatch(source) \in {"zip", "tar"}]_vars

\* ---------------------------------------------------------------------
\* get_all_themes, and SpecList: listings between calls that change the
\* current theme
\* ---------------------------------------------------------------------

\* the characters of theme names, in code point order
Alphabet == <<"B", "a", "b", "c", "d">>

CodePoint(c) == CHOOSE i \in 1..Len(Alphabet) : Alphabet[i] = c

\* s <= t for str
RECURSIVE StrLeq(_, _)
StrLeq(s, t) ==
    IF s = <<>> THEN TRUE
    ELSE IF t = <<>> THEN FALSE
    ELSE IF Head(s) # Head(t) THEN CodePoint(Head(s)) < CodePoint(Head(t))
    ELSE StrLeq(Tail(s), Tail(t))

\* sorted(themes, key=lambda t: t.name.lower()): the orders it can give a
\* set of entries, entries of equal key keeping the order iterdir gave them
SortedByLowerName(entries) ==
    {s \in [1..Cardinality(entries) -> entries] :
        /\ \A i, j \in DOMAIN s : i # j => s[i] # s[j]
        /\ \A i, j \in DOMAIN s :
               i < j => StrLeq(Lower(s[i].name), Lower(s[j].name))}

\* get_all_themes: the lists it can return; a catalog without a directory
\* stands for a missing catalog root as well
GetAllThemes(catalog, cur) ==
    SortedByLowerName(
        {[name |-> n,
          status |-> IF ~IsValid(catalog, n) THEN "error"
                     ELSE IF n = cur THEN "active" ELSE "available"] :
            n \in DOMAIN catalog})

\* ThemeManager.get_all_themes
GetAllThemesCall ==
    /\ \E listing \in GetAllThemes(themes, current_theme) :
           last' = Call("get_all_themes", <<>>, ThemeOperation(TRUE, "", <<>>, listing),
                        NoOperation, <<>>, None, "none", FALSE)
    /\ UNCHANGED <<playlist, current_theme, config_file, grub_default, themes, euid,
                   system, request, tmp_files>>

NameUpperB == <<"B">>

\* catalogs with a name in upper case and an invalid directory, and the
\* catalog without a directory
ListCatalogs ==
    {[n \in {NameA, NameUpperB, NameC} |->
         IF n = NameUpperB THEN {"bg.png"} ELSE {"theme.txt"}],
     [n \in {NameA, NameC} |-> {"Theme.txt"}],
     [n \in {} |-> {}]}

InitList ==
    /\ config_file = PlaylistFile(<<NameA, NameC>>, NameA)
    /\ grub_default \in {MissingFile, GrubFile(<<OtherLine, ThemeLine(NameA)>>)}
    /\ themes \in ListCatalogs
    /\ \E host \in InitHosts : euid = host[1] /\ system = host[2]
    /\ Constructed

NextList ==
    \/ GetAllThemesCall
    \/ LoadPlaylist
    \/ RemoveStep
    \/ SetStep

SpecList == InitList /\ [][NextList]_vars

\* ---------------------------------------------------------------------
\* C24
\* ---------------------------------------------------------------------

\* C24: get_all_themes returns one entry per directory of the catalog,
\* ordered case-insensitively by name; an entry is Error when the directory
\* fails the validity contract, otherwise Active exactly when its name is
\* the current theme derived from the boot config file, otherwise Available;
\* a missing catalog root gives the empty list.
CatalogListing ==
    last.op = "get_all_themes"
        => LET listing == last.result.theme
               derived == GetCurrentThemeFromGrub(grub_default)
           IN  /\ Len(listing) = Cardinality(DOMAIN themes)
               /\ {listing[i].name : i \in DOMAIN listing} = DOMAIN themes
               /\ \A i, j \in DOMAIN listing :
                      i < j => StrLeq(Lower(listing[i].name), Lower(listing[j].name))
               /\ \A i \in DOMAIN listing :
                      listing[i].status =
                          IF ~IsValid(themes, listing[i].name) THEN "error"
                          ELSE IF listing[i].name = derived THEN "active"
                          ELSE "available"

\* ---------------------------------------------------------------------
\* C25
\* ---------------------------------------------------------------------

\* a list without the entries equal to x, the others in their order
Without(s, x) == LET keeps(y) == y # x IN SelectSeq(s, keeps)

\* add_theme and remove_theme leave the boot config and the catalog alone,
\* and remove_theme of a name not in the playlist fails without a change
PlaylistCallsFrame ==
    /\ last'.op \in {"add_theme", "remove_theme"}
           => grub_default' = grub_default /\ themes' = themes
    /\ (last'.op = "remove_theme" /\ last'.arg \notin Range(playlist))
           => /\ ~last'.result.success
              /\ playlist' = playlist
              /\ config_file' = config_file
    /\ (last'.op = "add_theme" /\ last'.result.success)
           => playlist' = Append(playlist, last'.arg.name)

CurrentThemeFollowsBootConfig ==
    current_theme = GetCurrentThemeFromGrub(grub_default)

\* C26 as amended: the in-memory current theme equals the theme derived
\* from the boot config file after construction and after every
\* load_playlist.  Between two loads it follows the calls instead:
\* add_theme and save_playlist leave it and the boot config unchanged;
\* remove_theme leaves the boot config unchanged and makes it absent when
\* it removes the current theme; a successful set_theme or random_theme
\* makes it the theme that was set, and a failed one leaves it unchanged,
\* also when the boot config was rewritten before the failure.
CurrentThemeTracking ==
    /\ [](last.op \in {"init", "load_playlist"}
              => current_theme = GetCurrentThemeFromGrub(grub_default))
    /\ [][/\ last'.op \in {"add_theme", "save_playlist"}
                 => current_theme' = current_theme /\ grub_default' = grub_default
          /\ last'.op = "remove_theme"
                 => /\ grub_default' = grub_default
                    /\ current_theme' =
                           IF last'.result.success /\ current_theme = last'.arg
                           THEN None ELSE current_theme
          /\ last'.op = "set_theme"
                 => current_theme' =
                        IF last'.result.success THEN last'.arg ELSE current_theme
          /\ last'.op = "random_theme"
                 => current_theme' =
                        IF last'.result.success THEN last'.selected ELSE current_theme]_vars

\* remove_theme removed the theme the boot config names, and the in-memory
\* current theme is absent
CurrentThemeTrackingWitness ==
    /\ last.op = "remove_theme"
    /\ last.result.success
    /\ current_theme = None
    /\ GetCurrentThemeFromGrub(grub_default) = last.arg

\* ---------------------------------------------------------------------
\* C27
\* ---------------------------------------------------------------------

\* C27: in every state reachable from construction by load_playlist,
\* add_theme and remove_theme, whatever the playlist file holds, the
\* in-memory playlist holds no name twice.
PlaylistHasNoDuplicates ==
    \A i, j \in DOMAIN playlist : playlist[i] = playlist[j] => i = j

\* ---------------------------------------------------------------------
\* C28
\* ---------------------------------------------------------------------

\* C28: whenever add_theme or remove_theme returned success, a new manager
\* constructed on the same playlist file loads exactly the playlist the
\* first manager holds in memory, also when the write of the file failed.
SuccessIsPersisted ==
    (last.op \in {"add_theme", "remove_theme"} /\ last.result.success)
        => LoadedPlaylist(config_file) = playlist

\* ---------------------------------------------------------------------
\* C29
\* ---------------------------------------------------------------------

\* the descriptor file names a boot config names for a theme: the last
\* component of the path of each of its directives for the theme
NamedDescriptors(grub, theme_name) ==
    {"theme.txt" : line \in {l \in Range(SplitLines(grub.text)) : l = ThemeLine(theme_name)}}

\* C29: add_theme and set_theme accept a directory exactly when it is a
\* valid theme, one that holds a descriptor under an accepted filename
\* variant; so a valid theme of the catalog that is not in the playlist can
\* be added, and after a successful set_theme(T) the directive in the boot
\* config names a descriptor file that exists in T's directory.
OneValidityPredicate ==
    [][/\ (/\ last'.op = "add_theme"
           /\ PathExists(last'.arg, themes)
           /\ last'.arg.name \notin Range(playlist))
              => (last'.result.success <=> PathFiles(last'.arg, themes) \cap ThemeFiles # {})
       /\ (last'.op = "set_theme" /\ last'.result.success)
              => /\ IsValid(themes, last'.arg)
                 /\ NamedDescriptors(grub_default', last'.arg) # {}
                 /\ NamedDescriptors(grub_default', last'.arg) \subseteq themes[last'.arg]]_vars

\* ---------------------------------------------------------------------
\* SpecUrl: one install_theme_from_url of a url of any file name
\* ---------------------------------------------------------------------

InitUrl ==
    /\ request \in [file_name : FileNames, format : {"zip", "tar", "other"},
                    download : {"ok", "failed"}, theme_name : {None, NameC}]
    /\ config_file = MissingFile
    /\ grub_default = MissingFile
    /\ themes = Catalog({"theme.txt"}, {"Theme.txt"})
    /\ euid = Root
    /\ system = System("debian", FALSE, AllZero)
    /\ playlist = LoadedPlaylist(config_file)
    /\ current_theme = GetCurrentThemeFromGrub(grub_default)
    /\ tmp_files = {}
    /\ last = NoCall

\* install_theme_from_url(url, request.theme_name), the path of the url
\* ending in request.file_name
UrlStep ==
    /\ last.op = "init"
    /\ InstallFromUrlCall(Url(request.file_name, request.download, request.format,
                              Tree({"theme.txt"}, {})),
                          request.theme_name)

SpecUrl == InitUrl /\ [][UrlStep]_vars

\* ---------------------------------------------------------------------
\* C30
\* ---------------------------------------------------------------------

\* the local file named after the last component of the path of the url,
\* theme.zip when the component is empty, holding the downloaded content
LocalFile(url) ==
    Source(IF url.filename = <<>> THEN DefaultFilename ELSE url.filename,
           TRUE, FALSE, url.format, url.tree)

\* C30: an install from a url whose download succeeds gives what
\* install_theme_from_file gives for the downloaded content in a local
\* file named after the last component of the url path, with the same
\* explicit name or none: the same outcome, reached by the same dispatch
\* and under the same resolved theme name; a url whose path ends in
\* .tar.gz is installed through the tar pipeline.
UrlAsLocalFile ==
    [][(last'.op = "install_theme_from_url" /\ last'.arg.source.download = "ok")
        => LET url == last'.arg.source
               theme_name == last'.arg.theme_name
           IN  /\ \E found \in FoundChoices(LocalFile(url)) :
                      LET r == InstallThemeFromFile(LocalFile(url), theme_name, themes, euid,
                                                    found, last'.arg.copy, last'.arg.rm)
                      IN  r.result = last'.result /\ r.themes = themes'
               /\ EndsWith(url.filename, ExtTarGz)
                      => last'.result.message.text # "Unsupported file type: {type}"]_vars

====
